---------------------------- MODULE Spec2Model ----------------------------
(***************************************************************************)
(* CRDW Sweep & Specify: the resolution -> unification -> search/selection *)
(* pipeline.                                                               *)
(*                                                                         *)
(* SpecResolver  SystemLogic.getActiveSystems (js/system-logic.js) applied *)
(*               to inputs drawn from bounded sets.                        *)
(* SpecSession   the session of one dictionary type in app.js: the reload  *)
(*               the page starts with and those the date and context       *)
(*               listeners start, the fetches of loadCsv in flight, the    *)
(*               merge of loadTypeData, the keyword chips with the filter  *)
(*               passes they trigger, and the checkbox and category edits. *)
(* SpecMatcher   buildMatcher of one keyword applied to one value, both    *)
(*               drawn from bounded sets.                                  *)
(* SpecExport    the CSV the export modules write for rows drawn from      *)
(*               bounded sets.                                             *)
(* SpecPush      pushFile of github-push.js against a repository.          *)
(* SpecManifest  countMatches of the two search-terms manifests applied to *)
(*               the chips and the rows shown.                             *)
(*                                                                         *)
(* The DataTable of a type is taken to search the text of its cells and to *)
(* keep a function of $.fn.dataTable.ext.search until the code removes it. *)
(* The search box is empty, the medication filters are off, and every      *)
(* reload is for the outpatient context.                                   *)
(***************************************************************************)
EXTENDS Integers, Sequences, FiniteSets, TLC

VARIABLES
    \* ---- SystemResolver call (js/system-logic.js) ----
    rpc,          \* "call": arguments chosen, "done": getActiveSystems returned
    rType,        \* argument type
    rStart,       \* argument dateStart
    rEnd,         \* argument dateEnd
    rOut,         \* argument outpatient
    rIn,          \* argument inpatient
    rResult,      \* the returned array of system names
    \* ---- the session of one dictionary type (app.js) ----
    sType,        \* the dictionary type of the session
    unavailable,  \* the files that can not be loaded from any source
    reloads,      \* how many times updateSystemsAndReload has run
    edits,        \* how many keyword, checkbox and category handlers have run
    queued,       \* the runs of loadAllData that have not reached the type
    loads,        \* the calls of loadTypeData in flight, in the order they started
    rawData,      \* state.rawData: file -> what loadCsv resolved to
    activeSystems,\* state.activeSystems[type]
    data,         \* state.data[type]: the merged rows
    hasTable,     \* state.tables[type] exists
    desired,      \* state.desired[type]: rowKey -> boolean
    categories,   \* state.categories[type]: rowKey -> text
    keywordMatched,\* state.keywordMatched[type]: rowKey -> text
    keywords,     \* state.keywords[type]: the chips, in the order added
    filter,       \* the terms of the keyword filter in $.fn.dataTable.ext.search
    \* ---- KeywordMatcher call ----
    mpc,          \* "call": term and value chosen, "done": the predicate returned
    mTerm,        \* the raw term
    mValue,       \* the value the predicate is applied to
    mResult,      \* the returned boolean
    \* ---- CSV export call (csv-download.js, github-push.js) ----
    xpc,          \* "call": arguments chosen, "done": the function returned
    xArgs,        \* the function called and its arguments
    xOut,         \* what it returned and the file it handed to the browser
    \* ---- search-terms manifest call ----
    npc,          \* "call": arguments chosen, "done": the manifest is built
    nArgs,        \* the function called, the keyword and matchingData
    nOut,         \* the match_count written for the keyword
    \* ---- GitHubPush (github-push.js) ----
    GH_TOKEN,     \* the stored token ("" is the empty string)
    GH_ORG,       \* the stored org
    ghCopy,       \* which copy of github-push.js is loaded
    gConfig,      \* the argument of the last configure call, if any
    pCalls,       \* the number of pushFile calls made so far
    ppc,          \* pushFile: "idle", "get": awaiting the existence check,
                  \* "put": awaiting the PUT
    pArgs,        \* the arguments of the pushFile call
    apiUrl,       \* apiUrl of the pushFile call
    existingSha,  \* existingSha of the pushFile call
    pLog,         \* the requests the call issued and their responses, in order
    pResult       \* how the pushFile call ended

rvars == <<rpc, rType, rStart, rEnd, rOut, rIn, rResult>>

svars == <<sType, unavailable, reloads, edits, queued, loads, rawData, activeSystems,
           data, hasTable, desired, categories, keywordMatched, keywords, filter>>

mvars == <<mpc, mTerm, mValue, mResult>>

xvars == <<xpc, xArgs, xOut>>

nvars == <<npc, nArgs, nOut>>

gvars == <<GH_TOKEN, GH_ORG, ghCopy, gConfig, pCalls, ppc, pArgs, apiUrl,
           existingSha, pLog, pResult>>

vars == <<rvars, svars, mvars, xvars, nvars, gvars>>

(***************************************************************************)
(* Dates.  A JavaScript Date compares through its time value; the time     *)
(* value of an Invalid Date (and the number an undefined or malformed      *)
(* argument converts to) is NaN, for which every relational comparison is  *)
(* false.  Time values are counted in days since 1970-01-01 UTC.           *)
(***************************************************************************)
Day(d) == [valid |-> TRUE, t |-> d]

InvalidDate == [valid |-> FALSE, t |-> 0]

\* a < b of JavaScript on two time values
Lt(a, b) == a.valid /\ b.valid /\ a.t < b.t

\* a <= b of JavaScript on two time values
Le(a, b) == a.valid /\ b.valid /\ a.t <= b.t

\* a >= b of JavaScript on two time values
Ge(a, b) == a.valid /\ b.valid /\ a.t >= b.t

\* new Date('2023-06-03')
EPIC_GOLIVE == 19511

\* new Date('2015-10-01')
ICD10_START == 16709

DictionaryTypes == {"dx", "medication", "lab", "location", "procedure"}

SourceSystems == {"epic", "meditech", "centricity", "gecb", "icd9", "icd10"}

\* [] followed by: if (c) systems.push(s)
PushIf(systems, c, s) == IF c THEN Append(systems, s) ELSE systems

DefaultTo_Never(systems, s) == systems

\* if (systems.length === 0) systems.push(s)
DefaultTo(systems, s) == IF Len(systems) = 0 THEN <<s>> ELSE systems

getDxSystems_InclusiveStart(dateStart, dateEnd) ==
    DefaultTo(
        PushIf(PushIf(<<>>, Ge(dateEnd, Day(ICD10_START)), "icd10"),
               Le(dateStart, Day(ICD10_START)), "icd9"),
        "icd10")

getDxSystems(dateStart, dateEnd) ==
    DefaultTo(
        PushIf(PushIf(<<>>, Ge(dateEnd, Day(ICD10_START)), "icd10"),
               Lt(dateStart, Day(ICD10_START)), "icd9"),
        "icd10")

getMedicationSystems_FlagsSwapped(beforeEpic, afterEpic, outpatient, inpatient) ==
    DefaultTo(
        PushIf(PushIf(PushIf(<<>>, afterEpic, "epic"),
                      beforeEpic /\ outpatient, "meditech"),
               beforeEpic /\ inpatient, "centricity"),
        "epic")

getMedicationSystems(beforeEpic, afterEpic, outpatient, inpatient) ==
    DefaultTo(
        PushIf(PushIf(PushIf(<<>>, afterEpic, "epic"),
                      beforeEpic /\ inpatient, "meditech"),
               beforeEpic /\ outpatient, "centricity"),
        "epic")

getLabSystems_LegacyAlways(beforeEpic, afterEpic) ==
    DefaultTo(PushIf(PushIf(<<>>, afterEpic, "epic"), TRUE, "meditech"),
              "epic")

getLabSystems(beforeEpic, afterEpic) ==
    DefaultTo(PushIf(PushIf(<<>>, afterEpic, "epic"), beforeEpic, "meditech"),
              "epic")

getProcedureSystems(beforeEpic, afterEpic) ==
    DefaultTo(PushIf(PushIf(<<>>, afterEpic, "epic"), beforeEpic, "gecb"),
              "epic")

getLocationSystems_InpatientAlways(beforeEpic, afterEpic, outpatient, inpatient) ==
    DefaultTo(
        PushIf(PushIf(PushIf(<<>>, afterEpic, "epic"),
                      beforeEpic /\ outpatient, "gecb"),
               inpatient, "meditech"),
        "epic")

getLocationSystems_EpicAlways(beforeEpic, afterEpic, outpatient, inpatient) ==
    DefaultTo(
        PushIf(PushIf(PushIf(<<>>, TRUE, "epic"),
                      beforeEpic /\ outpatient, "gecb"),
               beforeEpic /\ inpatient, "meditech"),
        "epic")

getLocationSystems(beforeEpic, afterEpic, outpatient, inpatient) ==
    DefaultTo(
        PushIf(PushIf(PushIf(<<>>, afterEpic, "epic"),
                      beforeEpic /\ outpatient, "gecb"),
               beforeEpic /\ inpatient, "meditech"),
        "epic")

getActiveSystems_InclusiveStart(type, dateStart, dateEnd, outpatient, inpatient) ==
    LET beforeEpic == Le(dateStart, Day(EPIC_GOLIVE))
        afterEpic  == Ge(dateEnd, Day(EPIC_GOLIVE))
    IN  CASE type = "dx"         -> getDxSystems(dateStart, dateEnd)
          [] type = "medication" -> getMedicationSystems(beforeEpic, afterEpic, outpatient, inpatient)
          [] type = "lab"        -> getLabSystems(beforeEpic, afterEpic)
          [] type = "location"   -> getLocationSystems(beforeEpic, afterEpic, outpatient, inpatient)
          [] type = "procedure"  -> getProcedureSystems(beforeEpic, afterEpic)
          [] OTHER               -> <<>>

getActiveSystems_NaNBefore(type, dateStart, dateEnd, outpatient, inpatient) ==
    LET beforeEpic == ~Ge(dateStart, Day(EPIC_GOLIVE))
        afterEpic  == Ge(dateEnd, Day(EPIC_GOLIVE))
    IN  CASE type = "dx"         -> getDxSystems(dateStart, dateEnd)
          [] type = "medication" -> getMedicationSystems(beforeEpic, afterEpic, outpatient, inpatient)
          [] type = "lab"        -> getLabSystems(beforeEpic, afterEpic)
          [] type = "location"   -> getLocationSystems(beforeEpic, afterEpic, outpatient, inpatient)
          [] type = "procedure"  -> getProcedureSystems(beforeEpic, afterEpic)
          [] OTHER               -> <<>>

getActiveSystems(type, dateStart, dateEnd, outpatient, inpatient) ==
    LET beforeEpic == Lt(dateStart, Day(EPIC_GOLIVE))
        afterEpic  == Ge(dateEnd, Day(EPIC_GOLIVE))
    IN  CASE type = "dx"         -> getDxSystems(dateStart, dateEnd)
          [] type = "medication" -> getMedicationSystems(beforeEpic, afterEpic, outpatient, inpatient)
          [] type = "lab"        -> getLabSystems(beforeEpic, afterEpic)
          [] type = "location"   -> getLocationSystems(beforeEpic, afterEpic, outpatient, inpatient)
          [] type = "procedure"  -> getProcedureSystems(beforeEpic, afterEpic)
          [] OTHER               -> <<>>

(***************************************************************************)
(* getSystemCsvFiles: the files of the active systems, each once, in the   *)
(* order in which the systems first name them.                             *)
(***************************************************************************)
fileMap_ProcedureEpicOnly(type) ==
    CASE type = "dx" ->
             [icd10 |-> "dictionary-dx.csv", icd9 |-> "dictionary-dx.csv"]
      [] type = "medication" ->
             [epic       |-> "dictionary-medication.csv",
              meditech   |-> "dictionary-medication.csv",
              centricity |-> "dictionary-medication.csv"]
      [] type = "lab" ->
             [epic |-> "dictionary-lab.csv", meditech |-> "dictionary-lab.csv"]
      [] type = "location" ->
             [epic     |-> "dictionary-location-epic.csv",
              gecb     |-> "dictionary-location-gecb.csv",
              meditech |-> "dictionary-location-meditech.csv"]
      [] type = "procedure" ->
             [epic |-> "dictionary-procedure.csv"]
      [] OTHER -> <<>>

fileMap(type) ==
    CASE type = "dx" ->
             [icd10 |-> "dictionary-dx.csv", icd9 |-> "dictionary-dx.csv"]
      [] type = "medication" ->
             [epic       |-> "dictionary-medication.csv",
              meditech   |-> "dictionary-medication.csv",
              centricity |-> "dictionary-medication.csv"]
      [] type = "lab" ->
             [epic |-> "dictionary-lab.csv", meditech |-> "dictionary-lab.csv"]
      [] type = "location" ->
             [epic     |-> "dictionary-location-epic.csv",
              gecb     |-> "dictionary-location-gecb.csv",
              meditech |-> "dictionary-location-meditech.csv"]
      [] type = "procedure" ->
             [epic |-> "dictionary-procedure.csv", gecb |-> "dictionary-procedure.csv"]
      [] OTHER -> <<>>

Range(seq) == {seq[i] : i \in DOMAIN seq}

\* files.add(f) of a Set kept in insertion order
AddOnce_Always(files, f) == Append(files, f)

AddOnce(files, f) == IF f \in Range(files) THEN files ELSE Append(files, f)

RECURSIVE AddFiles(_, _, _)
AddFiles(map, systems, files) ==
    IF systems = <<>> THEN files
    ELSE AddFiles(map, Tail(systems),
                  IF Head(systems) \in DOMAIN map
                  THEN AddOnce(files, map[Head(systems)])
                  ELSE files)

getSystemCsvFiles(type, systems) == AddFiles(fileMap(type), systems, <<>>)

(***************************************************************************)
(* Text.  A string is a sequence of one-character strings.                 *)
(***************************************************************************)
UpperCase ==
    <<"A", "B", "C", "D", "E", "F", "G", "H", "I", "J", "K", "L", "M",
      "N", "O", "P", "Q", "R", "S", "T", "U", "V", "W", "X", "Y", "Z">>

LowerCase ==
    <<"a", "b", "c", "d", "e", "f", "g", "h", "i", "j", "k", "l", "m",
      "n", "o", "p", "q", "r", "s", "t", "u", "v", "w", "x", "y", "z">>

LowerChar(c) ==
    IF \E i \in DOMAIN UpperCase : UpperCase[i] = c
    THEN LowerCase[CHOOSE i \in DOMAIN UpperCase : UpperCase[i] = c]
    ELSE c

toLowerCase(s) == [i \in DOMAIN s |-> LowerChar(s[i])]

RECURSIVE trimStart(_)
trimStart(s) ==
    IF s # <<>> /\ Head(s) = " " THEN trimStart(Tail(s)) ELSE s

RECURSIVE trimEnd(_)
trimEnd(s) ==
    IF s # <<>> /\ s[Len(s)] = " " THEN trimEnd(SubSeq(s, 1, Len(s) - 1)) ELSE s

trim(s) == trimEnd(trimStart(s))

\* the part of replace(/^\*+|\*+$/g, '') that strips the leading stars
stripLeadingStars_Keeps(s) == s

RECURSIVE stripLeadingStars(_)
stripLeadingStars(s) ==
    IF s # <<>> /\ Head(s) = "*" THEN stripLeadingStars(Tail(s)) ELSE s

\* the part that strips the trailing stars
RECURSIVE stripTrailingStars(_)
stripTrailingStars(s) ==
    IF s # <<>> /\ s[Len(s)] = "*"
    THEN stripTrailingStars(SubSeq(s, 1, Len(s) - 1))
    ELSE s

\* replace(/^\*+|\*+$/g, '')
stripStars(s) == stripTrailingStars(stripLeadingStars(s))

\* val.includes(core), val.indexOf(core) !== -1
includes(value, core) ==
    \E i \in 0 .. (Len(value) - Len(core)) :
        SubSeq(value, i + 1, i + Len(core)) = core

startsWith(s, prefix) ==
    Len(s) >= Len(prefix) /\ SubSeq(s, 1, Len(prefix)) = prefix

endsWith(s, suffix) ==
    Len(s) >= Len(suffix) /\ SubSeq(s, Len(s) - Len(suffix) + 1, Len(s)) = suffix

(***************************************************************************)
(* app.js: buildMatcher(keyword) applied to a value.  The callers pass the *)
(* value lower-cased.                                                      *)
(***************************************************************************)
buildMatcher(keyword, val) ==
    LET kw == trim(toLowerCase(keyword))
        startsWithStar == startsWith(kw, <<"*">>)
        endsWithStar == endsWith(kw, <<"*">>)
        core == stripStars(kw)
    IN  IF core = <<>> THEN FALSE
        ELSE IF startsWithStar /\ endsWithStar THEN includes(val, core)
        ELSE IF endsWithStar THEN includes(val, core)
        ELSE IF startsWithStar THEN includes(val, core)
        ELSE includes(val, core)

(***************************************************************************)
(* The names of the systems and of the files as text.                      *)
(***************************************************************************)
Chars(name) ==
    CASE name = "epic" ->
            <<"e", "p", "i", "c">>
      [] name = "meditech" ->
            <<"m", "e", "d", "i", "t", "e", "c", "h">>
      [] name = "centricity" ->
            <<"c", "e", "n", "t", "r", "i", "c", "i", "t", "y">>
      [] name = "gecb" ->
            <<"g", "e", "c", "b">>
      [] name = "icd10" ->
            <<"i", "c", "d", "1", "0">>
      [] name = "icd9" ->
            <<"i", "c", "d", "9">>
      [] name = "cdw" ->
            <<"c", "d", "w">>
      [] name = "dictionary-dx.csv" ->
            <<"d", "i", "c", "t", "i", "o", "n", "a", "r", "y", "-", "d", "x", ".", "c", "s", "v">>
      [] name = "dictionary-medication.csv" ->
            <<"d", "i", "c", "t", "i", "o", "n", "a", "r", "y", "-", "m", "e", "d", "i", "c", "a", "t", "i", "o", "n", ".", "c", "s", "v">>
      [] name = "dictionary-lab.csv" ->
            <<"d", "i", "c", "t", "i", "o", "n", "a", "r", "y", "-", "l", "a", "b", ".", "c", "s", "v">>
      [] name = "dictionary-procedure.csv" ->
            <<"d", "i", "c", "t", "i", "o", "n", "a", "r", "y", "-", "p", "r", "o", "c", "e", "d", "u", "r", "e", ".", "c", "s", "v">>
      [] name = "dictionary-location-epic.csv" ->
            <<"d", "i", "c", "t", "i", "o", "n", "a", "r", "y", "-", "l", "o", "c", "a", "t", "i", "o", "n", "-", "e", "p", "i", "c", ".", "c", "s", "v">>
      [] name = "dictionary-location-gecb.csv" ->
            <<"d", "i", "c", "t", "i", "o", "n", "a", "r", "y", "-", "l", "o", "c", "a", "t", "i", "o", "n", "-", "g", "e", "c", "b", ".", "c", "s", "v">>
      [] name = "dictionary-location-meditech.csv" ->
            <<"d", "i", "c", "t", "i", "o", "n", "a", "r", "y", "-", "l", "o", "c", "a", "t", "i", "o", "n", "-", "m", "e", "d", "i", "t", "e", "c", "h", ".", "c", "s", "v">>
      [] OTHER -> <<>>

ICD10CM == <<"I", "C", "D", "1", "0", "C", "M">>

ICD9CM == <<"I", "C", "D", "9", "C", "M">>

\* String(idx) of a row index
Digits(idx) == <<<<"0", "1", "2", "3", "4", "5", "6", "7", "8", "9">>[idx + 1]>>

(***************************************************************************)
(* The dictionary files as the loader parses them (Papa.parse, header:     *)
(* true): every row an object of strings.  A row of dictionary-dx.csv has  *)
(* a vocabulary_id; a row of the medication, lab and procedure files has a *)
(* source_db; a row of the procedure file has a category; a row of a       *)
(* location file has none of them.  Every row has a code and a             *)
(* description.  A column a row does not have is the empty text.           *)
(***************************************************************************)
RawRow(vocabulary_id, source_db, category, code, description) ==
    [vocabulary_id |-> vocabulary_id, source_db |-> source_db,
     category |-> category, code |-> code, description |-> description]

RawFile(file) ==
    CASE file = "dictionary-dx.csv" ->
             <<RawRow(ICD10CM, <<>>, <<>>, <<"c">>, <<"a", "B">>),
               RawRow(ICD9CM, <<>>, <<>>, <<"b">>, <<"c">>)>>
      [] file = "dictionary-medication.csv" ->
             <<RawRow(<<>>, <<"E", "p", "i", "c">>, <<>>, <<"A", "b">>, <<"c">>),
               RawRow(<<>>, <<"C", "e", "n", "t", "r", "i", "c", "i", "t", "y">>, <<>>, <<"c">>, <<"c">>)>>
      [] file = "dictionary-lab.csv" ->
             <<RawRow(<<>>, <<"M", "e", "d", "i", "t", "e", "c", "h">>, <<>>, <<"b">>, <<"A">>),
               RawRow(<<>>, <<"E", "p", "i", "c">>, <<>>, <<"c">>, <<"c">>)>>
      [] file = "dictionary-procedure.csv" ->
             <<RawRow(<<>>, <<"E", "p", "i", "c">>, <<"y">>, <<"c">>, <<"B">>),
               RawRow(<<>>, <<"G", "E", "C", "B">>, <<>>, <<"a", "b">>, <<"c">>)>>
      [] file = "dictionary-location-epic.csv" ->
             <<RawRow(<<>>, <<>>, <<>>, <<"a">>, <<"b">>)>>
      [] file = "dictionary-location-gecb.csv" ->
             <<RawRow(<<>>, <<>>, <<>>, <<"c">>, <<"a">>)>>
      [] OTHER -> <<>>

\* what loadCsv resolves to for a file: its rows, or [] when neither the
\* fetch nor a fallback delivers it
Rows(file, content) == IF content = "rows" THEN RawFile(file) ELSE <<>>

(***************************************************************************)
(* app.js: loadTypeData, the merge of the loaded files into state.data.    *)
(* desired, categories and keywordMatched are the three maps of the state, *)
(* from _rowKey to the value the user or a filter pass has set.            *)
(***************************************************************************)
inferSource(filename) ==
    IF includes(filename, <<"-", "e", "p", "i", "c">>) THEN Chars("epic")
    ELSE IF includes(filename, <<"-", "m", "e", "d", "i", "t", "e", "c", "h">>)
    THEN Chars("meditech")
    ELSE IF includes(filename, <<"-", "c", "e", "n", "t", "r", "i", "c", "i", "t", "y">>)
    THEN Chars("centricity")
    ELSE IF includes(filename, <<"-", "g", "e", "c", "b">>) THEN Chars("gecb")
    ELSE Chars("cdw")

\* systems.includes(name)
includesSystem(systems, name) == \E i \in DOMAIN systems : Chars(systems[i]) = name

\* the rows loadTypeData skips
skipped_Never(type, systems, row) == FALSE

skipped(type, systems, row) ==
    \/ /\ type = "dx"
       /\ \/ row.vocabulary_id = ICD10CM /\ ~includesSystem(systems, Chars("icd10"))
          \/ row.vocabulary_id = ICD9CM /\ ~includesSystem(systems, Chars("icd9"))
    \/ /\ row.source_db # <<>>
       /\ type \in {"medication", "lab", "procedure"}
       /\ ~includesSystem(systems, toLowerCase(row.source_db))

rowSource(type, file, row) ==
    IF row.source_db # <<>> /\ type \in {"medication", "lab", "procedure"}
    THEN toLowerCase(row.source_db)
    ELSE inferSource(Chars(file))

\* file + ':' + idx, kept as the pair
RowKey(file, idx) == <<file, idx>>

\* the text of a _rowKey
rowKeyText(key) == Chars(key[1]) \o <<":">> \o Digits(key[2])

\* a || b
OrElse(a, b) == IF a # <<>> THEN a ELSE b

Lookup(map, key, default) == IF key \in DOMAIN map THEN map[key] ELSE default

\* the object pushed to merged
mergedRow_StoredOnly(type, file, idx, row, des, cats, kwm) ==
    LET rowKey == RowKey(file, idx)
    IN  [vocabulary_id   |-> row.vocabulary_id,
         source_db       |-> row.source_db,
         code            |-> row.code,
         description     |-> row.description,
         source          |-> rowSource(type, file, row),
         rowKey          |-> rowKey,
         desired         |-> Lookup(des, rowKey, FALSE),
         category        |-> Lookup(cats, rowKey, <<>>),
         keyword_matched |-> Lookup(kwm, rowKey, <<>>)]

mergedRow(type, file, idx, row, des, cats, kwm) ==
    LET rowKey == RowKey(file, idx)
    IN  [vocabulary_id   |-> row.vocabulary_id,
         source_db       |-> row.source_db,
         code            |-> row.code,
         description     |-> row.description,
         source          |-> rowSource(type, file, row),
         rowKey          |-> rowKey,
         desired         |-> Lookup(des, rowKey, FALSE),
         category        |-> OrElse(Lookup(cats, rowKey, <<>>), row.category),
         keyword_matched |-> Lookup(kwm, rowKey, <<>>)]

\* data.forEach of one file
mergeFile(type, systems, file, fileData, des, cats, kwm) ==
    LET indexes == [i \in 1 .. Len(fileData) |-> i - 1]
        kept == SelectSeq(indexes, LAMBDA idx : ~skipped(type, systems, fileData[idx + 1]))
    IN  [j \in 1 .. Len(kept) |->
            mergedRow(type, file, kept[j], fileData[kept[j] + 1],
                      des, cats, kwm)]

RECURSIVE merge_StopsAtEmpty(_, _, _, _, _, _, _)
merge_StopsAtEmpty(type, systems, csvFiles, results, des, cats, kwm) ==
    IF csvFiles = <<>> \/ Head(results) = "empty" THEN <<>>
    ELSE mergeFile(type, systems, Head(csvFiles),
                   Rows(Head(csvFiles), Head(results)),
                   des, cats, kwm)
         \o merge_StopsAtEmpty(type, systems, Tail(csvFiles), Tail(results),
                               des, cats, kwm)

\* results.forEach: results[i] is what the i-th file of csvFiles loaded to
RECURSIVE merge(_, _, _, _, _, _, _)
merge(type, systems, csvFiles, results, des, cats, kwm) ==
    IF csvFiles = <<>> THEN <<>>
    ELSE mergeFile(type, systems, Head(csvFiles),
                   Rows(Head(csvFiles), Head(results)),
                   des, cats, kwm)
         \o merge(type, systems, Tail(csvFiles), Tail(results),
                  des, cats, kwm)

(***************************************************************************)
(* app.js: the table of a type and the keyword filter.  The DataTable      *)
(* shows one cell per column of getColumnDefs; the rows it reports with    *)
(* { search: 'applied' } are the rows that pass the function the last      *)
(* applyKeywordFilter pushed to $.fn.dataTable.ext.search, which stays     *)
(* there until applyKeywordFilter replaces or removes it.  The search box  *)
(* is empty while the handlers run, so allTerms is the chips.              *)
(***************************************************************************)
\* (v || '').toString() of a value of a row
TextOf(v) == IF v = TRUE THEN <<"t", "r", "u", "e">> ELSE IF v = FALSE THEN <<>> ELSE v

\* Object.values(row), each as text
rowValues(row) ==
    <<row.vocabulary_id, row.source_db, row.code, row.description, row.source,
      rowKeyText(row.rowKey), TextOf(row.desired), row.category,
      row.keyword_matched>>

\* the columns detectDataColumns finds, as the values of a row
dataColumns(row) ==
    <<row.vocabulary_id, row.source_db, row.code, row.description>>

\* the text of the badge sourceLabel builds
sourceLabel(src) ==
    CASE src = Chars("epic")       -> <<"E", "p", "i", "c">>
      [] src = Chars("meditech")   -> <<"M", "e", "d", "i", "t", "e", "c", "h">>
      [] src = Chars("centricity") -> <<"C", "e", "n", "t", "r", "i", "c", "i", "t", "y">>
      [] src = Chars("gecb")       -> <<"G", "E", "C", "B">>
      [] src = Chars("cdw")        -> <<"C", "D", "W">>
      [] OTHER                     -> src

\* searchData: the text of the cells of buildRowArray; the checkbox and the
\* category input have none
searchData(type, row) ==
    <<>> \o (IF type # "dx" THEN <<sourceLabel(row.source)>> ELSE <<>>)
         \o dataColumns(row)
         \o <<<<>>, row.keyword_matched>>

\* matchers.some(matcher => rowText.some(cellText => matcher(cellText)))
someMatches_FirstCell(terms, texts) ==
    \E i \in DOMAIN terms : texts # <<>> /\ buildMatcher(terms[i], toLowerCase(texts[1]))

someMatches(terms, texts) ==
    \E i \in DOMAIN terms : \E c \in DOMAIN texts :
        buildMatcher(terms[i], toLowerCase(texts[c]))

\* filterFn of applyKeywordFilter, for the terms it was built from; no
\* function is installed when there are none
filterFn(terms, type, row) == terms = <<>> \/ someMatches(terms, searchData(type, row))

\* table.rows({ search: 'applied' }): the indexes of the rows shown
applied(terms, type, rows) == {i \in DOMAIN rows : filterFn(terms, type, rows[i])}

\* the keyword autoDesireVisible records for a row
matchedKw(kws, row) ==
    IF someMatches(kws, rowValues(row))
    THEN kws[CHOOSE i \in DOMAIN kws :
                 /\ someMatches(<<kws[i]>>, rowValues(row))
                 /\ \A j \in 1 .. (i - 1) : ~someMatches(<<kws[j]>>, rowValues(row))]
    ELSE <<>>

\* what autoDesireVisible makes of a row that is shown
autoDesired_TagOnly(kws, row) ==
    [row EXCEPT !.keyword_matched = OrElse(matchedKw(kws, row), row.keyword_matched)]

autoDesired(kws, row) ==
    [row EXCEPT !.desired = TRUE,
                !.keyword_matched = OrElse(matchedKw(kws, row), row.keyword_matched)]

\* a map of the state with the value of every row of shown written to it
Written_OnlyShown(map, rows, shown, field) ==
    [k \in {rows[i].rowKey : i \in shown} |->
        LET i == CHOOSE j \in shown : rows[j].rowKey = k
        IN  IF field = "desired" THEN rows[i].desired
            ELSE IF field = "category" THEN rows[i].category
            ELSE rows[i].keyword_matched]

Written(map, rows, shown, field) ==
    LET keys == {rows[i].rowKey : i \in shown}
    IN  [k \in DOMAIN map \cup keys |->
            IF k \in keys
            THEN LET i == CHOOSE j \in shown : rows[j].rowKey = k
                 IN  IF field = "desired" THEN rows[i].desired
                     ELSE IF field = "category" THEN rows[i].category
                     ELSE rows[i].keyword_matched
            ELSE map[k]]

\* the state a handler leaves: the rows, the three maps and the filter
Sel(rows, des, cats, kwm, terms) ==
    [data |-> rows, desired |-> des, categories |-> cats,
     keywordMatched |-> kwm, filter |-> terms]

\* autoDesireVisible(type, keywords) with the filter of terms in place
autoDesireVisible(type, kws, s) ==
    LET shown == applied(s.filter, type, s.data)
        rows == [i \in DOMAIN s.data |->
                    IF i \in shown THEN autoDesired(kws, s.data[i]) ELSE s.data[i]]
    IN  Sel(rows,
            Written(s.desired, rows, shown, "desired"),
            s.categories,
            Written(s.keywordMatched, rows, shown, "keyword_matched"),
            s.filter)

\* applyKeywordFilter(type) when the table exists
applyKeywordFilter(type, kws, s) ==
    IF kws = <<>>
    THEN [s EXCEPT !.filter = <<>>]
    ELSE autoDesireVisible(type, kws, [s EXCEPT !.filter = kws])

(***************************************************************************)
(* app.js: the session of one dictionary type.  updateSystemsAndReload     *)
(* starts loadAllData, which loads the five types one after the other:     *)
(* loadTypeData of dx starts inside the handler, that of another type when *)
(* the types before it are loaded.  A loadTypeData whose files are all     *)
(* cached runs to its end before any other handler; one that fetches is    *)
(* in flight until its last fetch settles, and other handlers run          *)
(* meanwhile.                                                              *)
(***************************************************************************)
\* how many times the user changes the date range or the visit context
MaxReloads == 1

\* how many times the user changes a keyword, a checkbox or a category
MaxEdits == 2

\* the dates the page is opened or a reload is started with: 2010-01-01,
\* 2020-01-01, 2024-01-01
ReloadDates == {Day(14610), Day(19723)}

\* the visit context the page is opened or a reload is started with:
\* outpatient without inpatient
ReloadContexts == {[outpatient |-> TRUE, inpatient |-> FALSE]}

\* the keywords the user enters: "a" and "*B"
Terms == {<<"a">>, <<"*", "B">>}

\* the category the user enters: "x"
Categories == {<<"x">>}

\* what loadCsv resolves to for a file: its rows, or [] when the file can
\* not be loaded from any source
contentOf(file) == IF file \in unavailable THEN "empty" ELSE "rows"

\* a loadTypeData in flight: the systems it read, its csvFiles, the files
\* whose loadCsv has not settled and the data of those that have
Load(systems, csvFiles, pending, got) ==
    [systems |-> systems, csvFiles |-> csvFiles, pending |-> pending, got |-> got]

\* const state = { ... }
SessionIdle(type) ==
    /\ sType = type
    /\ unavailable = {}
    /\ reloads = 0
    /\ edits = 0
    /\ queued = 0
    /\ loads = <<>>
    /\ rawData = <<>>
    /\ activeSystems = <<>>
    /\ data = <<>>
    /\ hasTable = FALSE
    /\ desired = <<>>
    /\ categories = <<>>
    /\ keywordMatched = <<>>
    /\ keywords = <<>>
    /\ filter = <<>>

\* the state of the rows, the maps and the filter
Current == Sel(data, desired, categories, keywordMatched, filter)

Becomes(s) ==
    /\ data' = s.data
    /\ desired' = s.desired
    /\ categories' = s.categories
    /\ keywordMatched' = s.keywordMatched
    /\ filter' = s.filter

\* results of Promise.all, in the order of csvFiles
resultsOf(csvFiles, got) == [i \in DOMAIN csvFiles |-> got[csvFiles[i]]]

\* loadTypeData after Promise.all: merge, renderTable, applyKeywordFilter
Merged(systems, csvFiles, got) ==
    LET s == Sel(merge(sType, systems, csvFiles, resultsOf(csvFiles, got),
                       desired, categories, keywordMatched),
                 desired, categories, keywordMatched, filter)
    IN  IF keywords # <<>> THEN applyKeywordFilter(sType, keywords, s) ELSE s

loadTypeData_ClearsOnThrow(systems, throws) ==
    LET csvFiles == getSystemCsvFiles(sType, systems)
        cached == {f \in Range(csvFiles) : f \in DOMAIN rawData}
        got == [f \in cached |-> rawData[f]]
    IN  IF cached = Range(csvFiles)
        THEN /\ ~throws
             /\ Becomes(Merged(systems, csvFiles, got))
             /\ hasTable' = TRUE
             /\ UNCHANGED loads
        ELSE /\ loads' = IF throws THEN loads
                         ELSE Append(loads, Load(systems, csvFiles,
                                                 Range(csvFiles) \ cached, got))
             /\ data' = IF throws THEN <<>> ELSE data
             /\ UNCHANGED <<desired, categories, keywordMatched, filter, hasTable>>

\* loadTypeData(type) up to its await, and beyond it when every file is
\* cached.  throws: loadCsv throws for the files that are not cached, the
\* promise of loadTypeData rejects and the catch of loadAllData reports it
loadTypeData(systems, throws) ==
    LET csvFiles == getSystemCsvFiles(sType, systems)
        cached == {f \in Range(csvFiles) : f \in DOMAIN rawData}
        got == [f \in cached |-> rawData[f]]
    IN  IF cached = Range(csvFiles)
        THEN /\ ~throws
             /\ Becomes(Merged(systems, csvFiles, got))
             /\ hasTable' = TRUE
             /\ UNCHANGED loads
        ELSE /\ loads' = IF throws THEN loads
                         ELSE Append(loads, Load(systems, csvFiles,
                                                 Range(csvFiles) \ cached, got))
             /\ UNCHANGED <<data, desired, categories, keywordMatched, filter,
                            hasTable>>

\* the date range or the visit context changes
updateSystemsAndReload(dateStart, dateEnd, outpatient, inpatient, throws) ==
    /\ reloads < MaxReloads
    /\ reloads' = reloads + 1
    /\ LET systems == getActiveSystems(sType, dateStart, dateEnd, outpatient, inpatient)
       IN  /\ activeSystems' = systems
           /\ IF sType = "dx"
              THEN loadTypeData(systems, throws) /\ UNCHANGED queued
              ELSE /\ ~throws
                   /\ queued' = queued + 1
                   /\ UNCHANGED <<loads, data, desired, categories, keywordMatched,
                                  filter, hasTable>>
    /\ UNCHANGED <<sType, unavailable, edits, rawData, keywords>>

\* loadAllData reaches the type: the types before it are loaded
loadAllData(throws) ==
    /\ queued > 0
    /\ queued' = queued - 1
    /\ loadTypeData(activeSystems, throws)
    /\ UNCHANGED <<sType, unavailable, reloads, edits, rawData, activeSystems, keywords>>

Without(seq, i) == [j \in 1 .. (Len(seq) - 1) |-> IF j < i THEN seq[j] ELSE seq[j + 1]]

\* loadCsv of a file of a load in flight resolves
loadCsvResolves(i, file) ==
    /\ i \in DOMAIN loads
    /\ file \in loads[i].pending
    /\ rawData' = [f \in DOMAIN rawData \cup {file} |->
                      IF f = file THEN contentOf(file) ELSE rawData[f]]
    /\ LET l == loads[i]
           got == [f \in DOMAIN l.got \cup {file} |->
                      IF f = file THEN contentOf(file) ELSE l.got[f]]
           pending == l.pending \ {file}
       IN  IF pending # {}
           THEN /\ loads' = [loads EXCEPT ![i] = Load(l.systems, l.csvFiles, pending, got)]
                /\ UNCHANGED <<data, desired, categories, keywordMatched, filter,
                               hasTable>>
           ELSE /\ loads' = Without(loads, i)
                /\ Becomes(Merged(l.systems, l.csvFiles, got))
                /\ hasTable' = TRUE
    /\ UNCHANGED <<sType, unavailable, reloads, edits, queued, activeSystems, keywords>>

\* keywords.some(k => k.toLowerCase() === kw.toLowerCase())
alreadyAdded(kws, kw) == \E i \in DOMAIN kws : toLowerCase(kws[i]) = toLowerCase(kw)

\* applyKeywordFilter(type) as the handlers call it
reapplied(kws) == IF hasTable THEN applyKeywordFilter(sType, kws, Current) ELSE Current

addKeyword(keyword) ==
    LET kw == trim(keyword)
    IN  /\ kw # <<>>
        /\ ~alreadyAdded(keywords, kw)
        /\ keywords' = Append(keywords, kw)
        /\ Becomes(reapplied(Append(keywords, kw)))
        /\ edits < MaxEdits
        /\ edits' = edits + 1
        /\ UNCHANGED <<sType, unavailable, reloads, queued, loads, rawData, activeSystems,
                       hasTable>>

removeKeyword(index) ==
    /\ index \in DOMAIN keywords
    /\ keywords' = Without(keywords, index)
    /\ Becomes(reapplied(Without(keywords, index)))
    /\ edits < MaxEdits
    /\ edits' = edits + 1
    /\ UNCHANGED <<sType, unavailable, reloads, queued, loads, rawData, activeSystems,
                   hasTable>>

clearKeywords ==
    /\ keywords # <<>>
    /\ keywords' = <<>>
    /\ edits < MaxEdits
    /\ edits' = edits + 1
    /\ UNCHANGED <<sType, unavailable, reloads, queued, loads, rawData, activeSystems,
                   data, hasTable, desired, categories,
                   keywordMatched, filter>>

\* the rows the table shows
visible == applied(filter, sType, data)

SetIn_Skips(map, key, value) == map

SetIn(map, key, value) ==
    [k \in DOMAIN map \cup {key} |-> IF k = key THEN value ELSE map[k]]

\* the checkbox of a row that is shown
toggleDesired(idx, checked) ==
    /\ idx \in visible
    /\ data[idx].desired # checked
    /\ data' = [data EXCEPT ![idx].desired = checked]
    /\ desired' = SetIn(desired, data[idx].rowKey, checked)
    /\ edits < MaxEdits
    /\ edits' = edits + 1
    /\ UNCHANGED <<sType, unavailable, reloads, queued, loads, rawData, activeSystems,
                   hasTable, categories, keywordMatched, keywords,
                   filter>>

\* the category input of a row that is shown
setCategory(idx, value) ==
    /\ idx \in visible
    /\ data[idx].category # value
    /\ data' = [data EXCEPT ![idx].category = value]
    /\ categories' = SetIn(categories, data[idx].rowKey, value)
    /\ edits < MaxEdits
    /\ edits' = edits + 1
    /\ UNCHANGED <<sType, unavailable, reloads, queued, loads, rawData, activeSystems,
                   hasTable, desired, keywordMatched, keywords,
                   filter>>

deselectAll ==
    /\ data # <<>>
    /\ data' = [i \in DOMAIN data |-> [data[i] EXCEPT !.desired = FALSE]]
    /\ desired' = Written(desired, data', DOMAIN data, "desired")
    /\ edits < MaxEdits
    /\ edits' = edits + 1
    /\ UNCHANGED <<sType, unavailable, reloads, queued, loads, rawData, activeSystems,
                   hasTable, categories, keywordMatched, keywords,
                   filter>>

ResolverIdle ==
    /\ rpc = "idle"
    /\ rType = "dx"
    /\ rStart = InvalidDate
    /\ rEnd = InvalidDate
    /\ rOut = FALSE
    /\ rIn = FALSE
    /\ rResult = <<>>

MatcherIdle ==
    /\ mpc = "idle"
    /\ mTerm = <<>>
    /\ mValue = <<>>
    /\ mResult = FALSE

ExportIdle ==
    /\ xpc = "idle"
    /\ xArgs = <<>>
    /\ xOut = <<>>

ManifestIdle ==
    /\ npc = "idle"
    /\ nArgs = <<>>
    /\ nOut = 0

\* the two copies of github-push.js: the file itself and the one in the bundle
Copies == {"github-push.js", "bundle"}

\* let GH_ORG = ...
DefaultOrg(copy) == IF copy = "github-push.js" THEN "OuhscBbmc" ELSE ""

\* how pushFile ended: nothing yet, a returned value or a thrown error
Result(kind, status, value) == [kind |-> kind, status |-> status, value |-> value]

NoResult == Result("none", 0, <<>>)

\* a copy of github-push.js as loaded, neither configure nor pushFile called
PushLoaded(copy) ==
    /\ ghCopy = copy
    /\ GH_TOKEN = ""
    /\ GH_ORG = DefaultOrg(copy)
    /\ gConfig = <<>>
    /\ pCalls = 0
    /\ ppc = "idle"
    /\ pArgs = <<>>
    /\ apiUrl = <<>>
    /\ existingSha = [kind |-> "null", s |-> <<>>, b |-> FALSE]  \* null
    /\ pLog = <<>>
    /\ pResult = NoResult

PushIdle == PushLoaded("github-push.js")

\* init(): the page is opened and updateSystemsAndReload runs for the dates
\* and the visit context of the page
InitSession ==
    /\ ResolverIdle
    /\ MatcherIdle
    /\ ExportIdle
    /\ ManifestIdle
    /\ PushIdle
    /\ \E type \in DictionaryTypes, ds \in ReloadDates, de \in ReloadDates,
          c \in ReloadContexts :
       \E missing \in {{}} \cup {{fileMap(type)[s]} : s \in DOMAIN fileMap(type)} :
           LET systems == getActiveSystems(type, ds, de, c.outpatient, c.inpatient)
               csvFiles == getSystemCsvFiles(type, systems)
           IN  /\ sType = type
               /\ unavailable = missing
               /\ reloads = 0
               /\ edits = 0
               /\ queued = IF type = "dx" THEN 0 ELSE 1
               /\ loads = IF type = "dx"
                          THEN <<Load(systems, csvFiles, Range(csvFiles), <<>>)>>
                          ELSE <<>>
               /\ rawData = <<>>
               /\ activeSystems = systems
               /\ data = <<>>
               /\ hasTable = FALSE
               /\ desired = <<>>
               /\ categories = <<>>
               /\ keywordMatched = <<>>
               /\ keywords = <<>>
               /\ filter = <<>>

NextSession ==
    \/ \E ds \in ReloadDates, de \in ReloadDates, c \in ReloadContexts, throws \in BOOLEAN :
           updateSystemsAndReload(ds, de, c.outpatient, c.inpatient, throws) /\ UNCHANGED <<rvars, mvars, xvars, nvars, gvars>>
    \/ \E throws \in BOOLEAN : loadAllData(throws) /\ UNCHANGED <<rvars, mvars, xvars, nvars, gvars>>
    \/ \E i \in DOMAIN loads : \E file \in loads[i].pending :
           loadCsvResolves(i, file) /\ UNCHANGED <<rvars, mvars, xvars, nvars, gvars>>
    \/ \E keyword \in Terms : addKeyword(keyword) /\ UNCHANGED <<rvars, mvars, xvars, nvars, gvars>>
    \/ \E index \in DOMAIN keywords : removeKeyword(index) /\ UNCHANGED <<rvars, mvars, xvars, nvars, gvars>>
    \/ clearKeywords /\ UNCHANGED <<rvars, mvars, xvars, nvars, gvars>>
    \/ \E idx \in DOMAIN data, checked \in BOOLEAN : toggleDesired(idx, checked) /\ UNCHANGED <<rvars, mvars, xvars, nvars, gvars>>
    \/ \E idx \in DOMAIN data, value \in Categories : setCategory(idx, value) /\ UNCHANGED <<rvars, mvars, xvars, nvars, gvars>>
    \/ deselectAll /\ UNCHANGED <<rvars, mvars, xvars, nvars, gvars>>

SpecSession == InitSession /\ [][NextSession]_vars

(***************************************************************************)
(* The search-terms manifest: countMatches of downloadSearchManifest       *)
(* (csv-download.js) and of buildManifestContent (github-push.js), called  *)
(* by downloadCsv and sendToCrdw of app.js with the chips of the type and  *)
(* the rows the table shows.                                               *)
(***************************************************************************)
ManifestFns == {"downloadSearchManifest", "buildManifestContent"}

\* the chips addKeyword can have left: trimmed, not empty, no two equal but
\* for the letter case
ManifestKeywords ==
    LET chips == Terms \cup {<<"*">>}
    IN  {<<k>> : k \in chips}
            \cup {<<k1, k2>> : <<k1, k2>> \in {p \in chips \X chips : p[1] # p[2]}}

\* matchingData of downloadCsv and sendToCrdw with chips present: the rows
\* shown once the load of the systems has merged and the filter has passed
matchingDataOf(type, systems, kws) ==
    LET csvFiles == getSystemCsvFiles(type, systems)
        rows == merge(type, systems, csvFiles, [i \in DOMAIN csvFiles |-> "rows"],
                      <<>>, <<>>, <<>>)
        s == applyKeywordFilter(type, kws, Sel(rows, <<>>, <<>>, <<>>, <<>>))
    IN  SelectSeq(s.data, LAMBDA row : filterFn(s.filter, type, row))

\* Object.values(row).some(v => (v || '').toString().toLowerCase().indexOf(core) !== -1)
someValueHas(row, core) ==
    \E c \in DOMAIN rowValues(row) : includes(toLowerCase(rowValues(row)[c]), core)

\* countMatches(kw) of downloadSearchManifest
downloadSearchManifest_countMatches(kw, matchingData) ==
    LET core == stripStars(toLowerCase(kw))
    IN  IF core = <<>> THEN 0
        ELSE Len(SelectSeq(matchingData, LAMBDA row : someValueHas(row, core)))

\* countMatches(kw) of buildManifestContent
buildManifestContent_countMatches(kw, matchingData) ==
    LET core == stripStars(toLowerCase(kw))
    IN  IF core = <<>> THEN 0
        ELSE Len(SelectSeq(matchingData, LAMBDA row : someValueHas(row, core)))

\* keywords.map(kw => ... countMatches(kw) ...) of downloadSearchManifest
downloadSearchManifest ==
    /\ npc = "call"
    /\ nArgs.fn = "downloadSearchManifest"
    /\ npc' = "done"
    /\ nOut' = [n \in DOMAIN nArgs.keywords |->
                   downloadSearchManifest_countMatches(nArgs.keywords[n],
                                                       nArgs.matchingData)]
    /\ UNCHANGED nArgs

\* keywords.map(kw => ... countMatches(kw) ...) of buildManifestContent
buildManifestContent ==
    /\ npc = "call"
    /\ nArgs.fn = "buildManifestContent"
    /\ npc' = "done"
    /\ nOut' = [n \in DOMAIN nArgs.keywords |->
                   buildManifestContent_countMatches(nArgs.keywords[n],
                                                     nArgs.matchingData)]
    /\ UNCHANGED nArgs

InitManifest ==
    /\ ResolverIdle
    /\ \E type \in DictionaryTypes : SessionIdle(type)
    /\ MatcherIdle
    /\ ExportIdle
    /\ PushIdle
    /\ npc = "call"
    /\ nOut = <<>>
    /\ \E fn \in ManifestFns, type \in DictionaryTypes, kws \in ManifestKeywords :
       \E ds \in ReloadDates, de \in ReloadDates, c \in ReloadContexts :
           nArgs = [fn |-> fn, type |-> type, keywords |-> kws,
                    matchingData |->
                        matchingDataOf(type,
                            getActiveSystems(type, ds, de, c.outpatient, c.inpatient),
                            kws)]

NextManifest ==
    \/ downloadSearchManifest /\ UNCHANGED <<rvars, svars, mvars, xvars, gvars>>
    \/ buildManifestContent /\ UNCHANGED <<rvars, svars, mvars, xvars, gvars>>

SpecManifest == InitManifest /\ [][NextManifest]_vars


(***************************************************************************)
(* Inputs of the resolver: the days around each cutover, the dates of the  *)
(* documented examples, day 0 (the number null converts to) and Invalid    *)
(* Date / undefined.                                                       *)
(***************************************************************************)
\* how many days on each side of a cutover the inputs cover
DaysAround == 1

ExampleDays == {0, 14610, 18262, 18993, 19723, 19875}

InputDays ==
    ExampleDays
    \cup (ICD10_START - DaysAround) .. (ICD10_START + DaysAround)
    \cup (EPIC_GOLIVE - DaysAround) .. (EPIC_GOLIVE + DaysAround)

InputDates == {Day(d) : d \in InputDays} \cup {InvalidDate}

\* the five dictionary types and a string that is none of them
InputTypes == DictionaryTypes \cup {"visit"}

InitResolver ==
    /\ rpc = "call"
    /\ rType \in InputTypes
    /\ rStart \in InputDates
    /\ rEnd \in InputDates
    /\ rOut \in BOOLEAN
    /\ rIn \in BOOLEAN
    /\ rResult = <<>>
    /\ SessionIdle("dx")
    /\ MatcherIdle
    /\ ExportIdle
    /\ ManifestIdle
    /\ PushIdle

Resolve ==
    /\ rpc = "call"
    /\ rResult' = getActiveSystems(rType, rStart, rEnd, rOut, rIn)
    /\ rpc' = "done"
    /\ UNCHANGED <<rType, rStart, rEnd, rOut, rIn>>
    /\ UNCHANGED <<svars, mvars, xvars, nvars, gvars>>

NextResolver == Resolve

SpecResolver == InitResolver /\ [][NextResolver]_vars

(***************************************************************************)
(* Inputs of the KeywordMatcher: terms over a letter in either case, the   *)
(* wildcard and the blank; values over two letters in either case.         *)
(***************************************************************************)
\* the longest term
MaxTermLen == 3

\* the longest value
MaxValueLen == 3

Strings(alphabet, n) == UNION {[1 .. k -> alphabet] : k \in 0 .. n}

InputTerms == Strings({"a", "B", "*", " "}, MaxTermLen)

InputValues == Strings({"A", "b"}, MaxValueLen)

InitMatcher ==
    /\ mpc = "call"
    /\ mTerm \in InputTerms
    /\ mValue \in InputValues
    /\ mResult = FALSE
    /\ ResolverIdle
    /\ SessionIdle("dx")
    /\ ExportIdle
    /\ ManifestIdle
    /\ PushIdle

Match ==
    /\ mpc = "call"
    /\ mResult' = buildMatcher(mTerm, toLowerCase(mValue))
    /\ mpc' = "done"
    /\ UNCHANGED <<mTerm, mValue>>
    /\ UNCHANGED <<rvars, svars, xvars, nvars, gvars>>

NextMatcher == Match

SpecMatcher == InitMatcher /\ [][NextMatcher]_vars

(***************************************************************************)
(* CSV export: CsvDownload.download (csv-download.js), its older copy in   *)
(* the bundle, and GitHubPush.buildCsvContent (github-push.js).  A text is *)
(* a sequence of symbols: the comma, the double quote and the line feed    *)
(* are symbols of their own, and so is the underscore that starts the name *)
(* of an internal field; any other run of characters is one symbol.        *)
(***************************************************************************)
COMMA == <<",">>

QUOTE == <<"\"">>

LF == <<"\n">>

\* texts.join(sep)
RECURSIVE Join(_, _)
Join(texts, sep) ==
    IF texts = <<>> THEN <<>>
    ELSE IF Len(texts) = 1 THEN texts[1]
    ELSE texts[1] \o sep \o Join(Tail(texts), sep)

\* val.replace(/"/g, '""')
RECURSIVE DoubleQuotes(_)
DoubleQuotes(val) ==
    IF val = <<>> THEN <<>>
    ELSE (IF Head(val) = "\"" THEN QUOTE \o QUOTE ELSE <<Head(val)>>)
         \o DoubleQuotes(Tail(val))

\* a field is quoted when it holds a comma, a quote or a line feed
Quoted(val) ==
    IF {",", "\"", "\n"} \cap Range(val) # {}
    THEN QUOTE \o DoubleQuotes(val) \o QUOTE
    ELSE val

\* JavaScript values of a row's fields
Undefined == [kind |-> "undefined", s |-> <<>>, b |-> FALSE]

Null == [kind |-> "null", s |-> <<>>, b |-> FALSE]

Str(s) == [kind |-> "string", s |-> s, b |-> FALSE]

Bool(b) == [kind |-> "boolean", s |-> <<>>, b |-> b]

\* the truthiness of a value
Truthy(v) ==
    CASE v.kind = "boolean" -> v.b
      [] v.kind = "string"  -> v.s # <<>>
      [] OTHER              -> FALSE

\* if (val === undefined || val === null) val = ''; val = String(val)
ToText(v) ==
    CASE v.kind = "string"  -> v.s
      [] v.kind = "boolean" -> IF v.b THEN <<"true">> ELSE <<"false">>
      [] OTHER              -> <<>>

\* a row is an object: its fields in key order
Prop(k, v) == [k |-> k, v |-> v]

\* Object.keys(row)
ObjectKeys(row) == [i \in DOMAIN row |-> row[i].k]

\* row[col]
Get(row, col) ==
    IF \E i \in DOMAIN row : row[i].k = col
    THEN row[CHOOSE i \in DOMAIN row : row[i].k = col].v
    ELSE Undefined

DESIRED == <<"desired">>

CATEGORY == <<"category">>

KEYWORD_MATCHED == <<"keyword_matched">>

reserved == {DESIRED, CATEGORY, KEYWORD_MATCHED}

\* k.startsWith('_')
startsWithUnderscore(k) == k # <<>> /\ Head(k) = "_"

\* the schema built from the first exported row
dataCols_AnyRow(exportRows) ==
    LET keys == UNION {Range(ObjectKeys(exportRows[i])) : i \in DOMAIN exportRows}
        first == ObjectKeys(exportRows[1])
        later == {k \in keys : k \notin Range(first)}
        RECURSIVE AsSeq(_)
        AsSeq(set) == IF set = {} THEN <<>>
                      ELSE LET k == CHOOSE k \in set : TRUE
                           IN  <<k>> \o AsSeq(set \ {k})
    IN  SelectSeq(first \o AsSeq(later),
                  LAMBDA k : ~startsWithUnderscore(k) /\ k \notin reserved)

dataCols(exportRows) ==
    SelectSeq(ObjectKeys(exportRows[1]),
              LAMBDA k : ~startsWithUnderscore(k) /\ k \notin reserved)

dynamicSchema(exportRows) ==
    dataCols(exportRows) \o <<DESIRED, CATEGORY, KEYWORD_MATCHED>>

\* one field of a data line
Field(row, col) ==
    Quoted(IF col = DESIRED
           THEN (IF Truthy(Get(row, DESIRED)) THEN <<"TRUE">> ELSE <<"FALSE">>)
           ELSE ToText(Get(row, col)))

DataLine(row, schema) ==
    Join([i \in DOMAIN schema |-> Field(row, schema[i])], COMMA)

\* [headerLine, ...dataLines].join('\n')
CsvContent(rows, schema) ==
    Join(<<Join(schema, COMMA)>> \o [i \in DOMAIN rows |-> DataLine(rows[i], schema)],
         LF)

\* getDownloadSchema(type, source) of the bundle
schemas(key) ==
    CASE key = <<"dx">> ->
             <<<<"concept_id">>, <<"vocabulary_id">>, <<"icd_code">>,
               <<"icd_description">>, DESIRED, CATEGORY>>
      [] key = <<"medication", "-", "epic">> ->
             <<<<"medication_key">>, <<"name">>, <<"generic_name">>,
               <<"pharmaceutical_class">>, <<"pharmaceutical_subclass">>,
               <<"therapeutic_class">>, DESIRED, CATEGORY>>
      [] key = <<"medication", "-", "meditech">> ->
             <<<<"medication_mnemonic">>, <<"meditech_source">>,
               <<"medication_name">>, <<"generic">>, <<"ndc">>, DESIRED, CATEGORY>>
      [] key = <<"medication", "-", "centricity">> ->
             <<<<"description">>, <<"genericmed">>, <<"ndc_11">>, <<"gpi">>,
               DESIRED, CATEGORY>>
      [] key = <<"lab", "-", "epic">> ->
             <<<<"lab_component_key">>, <<"name">>, <<"common_name">>,
               <<"loinc_code">>, <<"loinc_name">>, <<"default_unit">>, <<"type">>,
               DESIRED, CATEGORY>>
      [] key = <<"lab", "-", "meditech">> ->
             <<<<"print_number">>, <<"source_meditech">>, <<"lab_mnemonic">>,
               <<"lab_desc">>, <<"loinc">>, <<"abbreviation">>, DESIRED, CATEGORY>>
      [] key = <<"location", "-", "epic">> ->
             <<<<"department_key">>, <<"department_external_name">>,
               <<"department_name">>, <<"department_specialty">>,
               <<"location_name">>, DESIRED, CATEGORY>>
      [] key = <<"location", "-", "gecb">> ->
             <<<<"sched_location_id">>, <<"sched_location">>, <<"clinic_name">>,
               <<"billing_loc_name">>, DESIRED, CATEGORY>>
      [] key = <<"location", "-", "meditech">> ->
             <<<<"location_mnemonic">>, <<"location_description">>,
               <<"facility_name">>, <<"campus_name">>, <<"location_type">>,
               DESIRED, CATEGORY>>
      [] OTHER -> <<>>

\* source ? `${type}-${source}` : type
SchemaKey(type, source) ==
    IF source # "" THEN <<type, "-", source>> ELSE <<type>>

getDownloadSchema(type, source) ==
    IF schemas(SchemaKey(type, source)) # <<>>
    THEN schemas(SchemaKey(type, source))
    ELSE schemas(<<type>>)

\* the keys of fileNames in csv-download.js; the bundle has no procedure key
fileNameKeys(fn) ==
    {<<"dx">>,
     <<"medication", "-", "epic">>, <<"medication", "-", "meditech">>,
     <<"medication", "-", "centricity">>,
     <<"lab", "-", "epic">>, <<"lab", "-", "meditech">>,
     <<"location", "-", "epic">>, <<"location", "-", "gecb">>,
     <<"location", "-", "meditech">>}
    \cup (IF fn = "download"
          THEN {<<"procedure", "-", "epic">>, <<"procedure", "-", "gecb">>,
                <<"procedure">>}
          ELSE {})

\* getDownloadFilename(type, source, projectName): every entry of fileNames
\* is `${prefix}ss-<key>.csv`
getDownloadFilename(fn, type, source, projectName) ==
    LET prefix == IF projectName # <<>> THEN projectName \o <<"-">> ELSE <<>>
        key == SchemaKey(type, source)
    IN  prefix \o <<"ss-">>
        \o (IF key \in fileNameKeys(fn) THEN key ELSE <<type>>)
        \o <<".csv">>

\* what a call returned, and the file handed to triggerDownload
Out(returned, filename, rowCount, downloaded, content) ==
    [returned   |-> returned,
     filename   |-> filename,
     rowCount   |-> rowCount,
     downloaded |-> downloaded,
     content    |-> content]

NoFile(returned) == Out(returned, <<>>, 0, FALSE, <<>>)

\* rows.filter(r => r.desired)
desiredRows_All(rows) == rows

desiredRows(rows) == SelectSeq(rows, LAMBDA r : Truthy(Get(r, DESIRED)))

\* CsvDownload.download of csv-download.js
download(rows, type, source, projectName, desiredOnly) ==
    IF rows = <<>> THEN NoFile("null")
    ELSE LET exportRows == IF desiredOnly THEN desiredRows(rows) ELSE rows
         IN  IF exportRows = <<>> THEN NoFile("null")
             ELSE Out("result",
                      getDownloadFilename("download", type, source, projectName),
                      Len(exportRows), TRUE,
                      CsvContent(exportRows, dynamicSchema(exportRows)))

\* CsvDownload.download of the bundle
bundleDownload(rows, type, source, projectName, desiredOnly) ==
    LET schema == getDownloadSchema(type, source)
        exportRows == IF desiredOnly THEN desiredRows(rows) ELSE rows
    IN  IF schema = <<>> THEN NoFile("undefined")
        ELSE Out("result",
                 getDownloadFilename("bundle.download", type, source, projectName),
                 Len(exportRows), TRUE,
                 CsvContent(exportRows, schema))

\* GitHubPush.buildCsvContent of github-push.js
buildCsvContent(rows) ==
    IF rows = <<>> THEN Out("content", <<>>, 0, FALSE, <<>>)
    ELSE Out("content", <<>>, 0, FALSE, CsvContent(rows, dynamicSchema(rows)))

(***************************************************************************)
(* Inputs of the export: rows that differ in their keys, in the place of   *)
(* the reserved keys, and in values that need quoting.                     *)
(***************************************************************************)
\* the longest list of rows
MaxRows == 3

RowA ==
    <<Prop(<<"id">>, Str(<<"a">>)),
      Prop(<<"name">>, Str(<<"a", ",", "b">>)),
      Prop(<<"_", "src">>, Str(<<"x">>)),
      Prop(DESIRED, Bool(TRUE)),
      Prop(CATEGORY, Str(<<>>)),
      Prop(KEYWORD_MATCHED, Str(<<"a">>))>>

\* no name
RowB ==
    <<Prop(<<"id">>, Str(<<"b">>)),
      Prop(DESIRED, Bool(FALSE)),
      Prop(CATEGORY, Str(<<"x">>)),
      Prop(KEYWORD_MATCHED, Str(<<>>))>>

\* desired first, a column of its own, a quote and a line feed
RowC ==
    <<Prop(DESIRED, Bool(TRUE)),
      Prop(<<"id">>, Str(<<"c">>)),
      Prop(<<"name">>, Str(<<"\"">>)),
      Prop(<<"extra">>, Str(<<"e", "\n", "f">>)),
      Prop(CATEGORY, Null),
      Prop(KEYWORD_MATCHED, Str(<<"a">>))>>

\* no desired, no keyword_matched, a null name
RowD ==
    <<Prop(<<"_", "src">>, Str(<<"y">>)),
      Prop(<<"name">>, Null),
      Prop(<<"id">>, Str(<<"d">>)),
      Prop(CATEGORY, Str(<<"x">>))>>

InputRows == Strings({RowA, RowB, RowC, RowD}, MaxRows)

ExportFunctions == {"download", "buildCsvContent", "bundle.download"}

InputCalls ==
    [fn          : ExportFunctions,
     rows        : InputRows,
     type        : {"dx", "procedure"},
     source      : {"", "epic"},
     projectName : {<<>>, <<"p">>},
     desiredOnly : BOOLEAN]

InitExport ==
    /\ xpc = "call"
    /\ xArgs \in InputCalls
    /\ xOut = <<>>
    /\ ResolverIdle
    /\ SessionIdle("dx")
    /\ MatcherIdle
    /\ ManifestIdle
    /\ PushIdle

Export ==
    /\ xpc = "call"
    /\ xOut' =
           CASE xArgs.fn = "download" ->
                    download(xArgs.rows, xArgs.type, xArgs.source,
                             xArgs.projectName, xArgs.desiredOnly)
             [] xArgs.fn = "bundle.download" ->
                    bundleDownload(xArgs.rows, xArgs.type, xArgs.source,
                                   xArgs.projectName, xArgs.desiredOnly)
             [] OTHER -> buildCsvContent(xArgs.rows)
    /\ xpc' = "done"
    /\ UNCHANGED xArgs
    /\ UNCHANGED <<rvars, svars, mvars, nvars, gvars>>

NextExport == Export

SpecExport == InitExport /\ [][NextExport]_vars

(***************************************************************************)
(* GitHubPush (github-push.js): configure, isConfigured and pushFile.      *)
(* pushFile is asynchronous: it runs up to the fetch of the existence      *)
(* check, resumes when that fetch settles and runs up to the fetch of the  *)
(* PUT, and resumes when that settles.  configure can run between the      *)
(* steps.                                                                   *)
(***************************************************************************)
MaxPushes == 2

\* if (config.ghToken) GH_TOKEN = config.ghToken: an empty or missing field
\* is falsy
setIfGiven_Always(stored, given) == given

setIfGiven(stored, given) == IF given # "" THEN given ELSE stored

\* isConfigured()
isConfigured ==
    IF ghCopy = "github-push.js"
    THEN GH_TOKEN # ""
    ELSE GH_TOKEN # "" /\ GH_ORG # ""

\* !GH_TOKEN || !GH_ORG
notConfigured(token, org) == token = "" \/ org = ""

\* 'https://api.github.com/repos/' + GH_ORG + '/' + repoName + '/contents/' + filePath
Url(org, repoName, filePath) ==
    <<"https://api.github.com/repos/", org, "/", repoName, "/contents/", filePath>>

\* btoa(unescape(encodeURIComponent(csvContent)))
btoa(text) == <<"base64">> \o text

SHA == <<"sha">>

\* what a fetch settles to: a response that is ok or not, with its status and
\* the object its body parses to ("badJson": the body does not parse), or a
\* rejection ("throws")
Resp(kind, status, json) == [kind |-> kind, status |-> status, json |-> json]

NoResp == Resp("none", 0, <<>>)

\* a request issued with fetch, and the settling of one
Request(method, url, token, body) ==
    [ev |-> "request", method |-> method, url |-> url, token |-> token,
     body |-> body, resp |-> NoResp]

Settled(method, resp) ==
    [ev |-> "settled", method |-> method, url |-> <<>>, token |-> "",
     body |-> <<>>, resp |-> resp]

\* existingSha after the try block
shaAfterCheck(resp) ==
    IF resp.kind = "ok" THEN Get(resp.json, SHA) ELSE Null

\* body, with body.sha set if (existingSha)
putBody_AlwaysSha(sha, commitMsg, encoded) ==
    <<Prop(<<"message">>, Str(commitMsg)), Prop(<<"content">>, Str(encoded)),
      Prop(SHA, sha)>>

putBody(sha, commitMsg, encoded) ==
    <<Prop(<<"message">>, Str(commitMsg)), Prop(<<"content">>, Str(encoded))>>
        \o (IF Truthy(sha) THEN <<Prop(SHA, sha)>> ELSE <<>>)

\* how pushFile ends once the PUT has settled
putOutcome_IgnoresOk(resp) ==
    CASE resp.kind = "throws"  -> Result("fetch failed", 0, <<>>)
      [] resp.kind = "badJson" -> Result("json failed", 0, <<>>)
      [] OTHER                 -> Result("success", 0, resp.json)

putOutcome(resp) ==
    CASE resp.kind = "throws"  -> Result("fetch failed", 0, <<>>)
      [] resp.kind = "notOk"   -> Result("GitHub API error", resp.status, <<>>)
      [] resp.kind = "badJson" -> Result("json failed", 0, <<>>)
      [] OTHER                 -> Result("success", 0, resp.json)

Tokens == {"t1", "t2"}

Orgs == {"o1"}

\* the config objects passed to configure: "" is an empty or missing field
Configs == [ghToken : Tokens \cup {""}, ghOrg : Orgs \cup {""}]

PushArgs ==
    [repoName   : {"repo"},
     filePath   : {"data-public/metadata/ss-dx.csv", "data-public/metadata/ss-lab.csv"},
     csvContent : {<<"csv">>},
     commitMsg  : {<<"msg">>}]

\* what the existence check settles to
CheckResponses ==
    {Resp("ok", 200, <<Prop(SHA, Str(<<"s1">>))>>),
     Resp("ok", 200, <<Prop(SHA, Str(<<"s2">>))>>),
     Resp("ok", 200, <<>>),
     Resp("badJson", 200, <<>>),
     Resp("notOk", 404, <<>>),
     Resp("throws", 0, <<>>)}

\* what the PUT settles to
PutResponses ==
    {Resp("ok", 200, <<Prop(<<"commit">>, Str(<<"c1">>))>>),
     Resp("ok", 201, <<Prop(<<"commit">>, Str(<<"c1">>))>>),
     Resp("badJson", 200, <<>>),
     Resp("notOk", 409, <<>>),
     Resp("notOk", 422, <<>>),
     Resp("throws", 0, <<>>)}

InitPush ==
    /\ \E copy \in Copies : PushLoaded(copy)
    /\ ResolverIdle
    /\ SessionIdle("dx")
    /\ MatcherIdle
    /\ ExportIdle
    /\ ManifestIdle

configure(config) ==
    /\ GH_TOKEN' = setIfGiven(GH_TOKEN, config.ghToken)
    /\ GH_ORG' = setIfGiven(GH_ORG, config.ghOrg)
    /\ gConfig' = <<config>>
    /\ UNCHANGED <<ghCopy, pCalls, ppc, pArgs, apiUrl, existingSha, pLog, pResult>>
    /\ UNCHANGED <<rvars, svars, mvars, xvars, nvars>>

\* pushFile up to its first await
pushFile(args) ==
    /\ ppc = "idle"
    /\ pCalls < MaxPushes
    /\ pCalls' = pCalls + 1
    /\ pArgs' = args
    /\ existingSha' = Null
    /\ IF notConfigured(GH_TOKEN, GH_ORG)
       THEN /\ pResult' = Result("GitHub not configured", 0, <<>>)
            /\ apiUrl' = <<>>
            /\ pLog' = <<>>
            /\ ppc' = "idle"
       ELSE /\ pResult' = NoResult
            /\ apiUrl' = Url(GH_ORG, args.repoName, args.filePath)
            /\ pLog' = <<Request("GET", apiUrl', GH_TOKEN, <<>>)>>
            /\ ppc' = "get"
    /\ UNCHANGED <<GH_TOKEN, GH_ORG, ghCopy, gConfig>>
    /\ UNCHANGED <<rvars, svars, mvars, xvars, nvars>>

\* the existence check settles: pushFile up to the fetch of the PUT
CheckSettles(resp) ==
    /\ ppc = "get"
    /\ existingSha' = shaAfterCheck(resp)
    /\ pLog' = pLog \o
           <<Settled("GET", resp),
             Request("PUT", apiUrl, GH_TOKEN,
                     putBody(existingSha', pArgs.commitMsg, btoa(pArgs.csvContent)))>>
    /\ ppc' = "put"
    /\ UNCHANGED <<GH_TOKEN, GH_ORG, ghCopy, gConfig, pCalls, pArgs, apiUrl, pResult>>
    /\ UNCHANGED <<rvars, svars, mvars, xvars, nvars>>

\* the PUT settles: pushFile to its end
PutSettles(resp) ==
    /\ ppc = "put"
    /\ pLog' = Append(pLog, Settled("PUT", resp))
    /\ pResult' = putOutcome(resp)
    /\ ppc' = "idle"
    /\ UNCHANGED <<GH_TOKEN, GH_ORG, ghCopy, gConfig, pCalls, pArgs, apiUrl, existingSha>>
    /\ UNCHANGED <<rvars, svars, mvars, xvars, nvars>>

NextPush ==
    \/ \E config \in Configs : configure(config)
    \/ \E args \in PushArgs : pushFile(args)
    \/ \E resp \in CheckResponses : CheckSettles(resp)
    \/ \E resp \in PutResponses : PutSettles(resp)

SpecPush == InitPush /\ [][NextPush]_vars

(***************************************************************************)
(* Properties of the resolver, over the state after getActiveSystems has   *)
(* returned.                                                               *)
(***************************************************************************)
Has(seq, x) == \E i \in DOMAIN seq : seq[i] = x

Returned(type) == rpc = "done" /\ rType = type

BeforeIcd10 == Lt(rStart, Day(ICD10_START))

AfterIcd10 == Ge(rEnd, Day(ICD10_START))

BeforeEpic == Lt(rStart, Day(EPIC_GOLIVE))

AfterEpic == Ge(rEnd, Day(EPIC_GOLIVE))

\* the returned list does not depend on the outpatient / inpatient arguments
FlagsIgnored ==
    \A o \in BOOLEAN, i \in BOOLEAN :
        getActiveSystems(rType, rStart, rEnd, o, i) = rResult

\* C1: for each of the five dictionary types and every dateStart, dateEnd,
\* outpatient and inpatient, getActiveSystems returns a non-empty list of
\* source systems.
C1_NonEmpty ==
    (rpc = "done" /\ rType \in DictionaryTypes)
        => /\ Len(rResult) > 0
           /\ \A i \in DOMAIN rResult : rResult[i] \in SourceSystems

\* C1 witness: an inverted dx range (start after the cutover, end before it)
\* matches no rule and is answered through the default.
C1_Witness ==
    /\ Returned("dx")
    /\ rStart = Day(18262) /\ rEnd = Day(14610)
    /\ rResult = <<"icd10">>

\* C2: dx: icd10 is in the result if dateEnd >= 2015-10-01; icd9 is in the
\* result exactly when dateStart < 2015-10-01; when neither holds the result
\* is exactly [icd10]; a range that straddles the cutover has both; the
\* visit-context flags are ignored.
C2_Dx ==
    Returned("dx")
        => /\ AfterIcd10 => Has(rResult, "icd10")
           /\ Has(rResult, "icd9") <=> BeforeIcd10
           /\ (~AfterIcd10 /\ ~BeforeIcd10) => rResult = <<"icd10">>
           /\ (AfterIcd10 /\ BeforeIcd10) => rResult = <<"icd10", "icd9">>
           /\ FlagsIgnored

\* C2 witness: resolve('dx', 2010-01-01, 2020-01-01, _, _).
C2_Witness ==
    /\ Returned("dx")
    /\ rStart = Day(14610) /\ rEnd = Day(18262)
    /\ rResult = <<"icd10", "icd9">>

\* C3: medication: epic if dateEnd >= 2023-06-03; meditech exactly when
\* dateStart < 2023-06-03 and inpatient; centricity exactly when
\* dateStart < 2023-06-03 and outpatient; when none of the three holds the
\* result is exactly [epic]; a range entirely after the cutover with both
\* flags false is exactly [epic].
C3_Medication ==
    Returned("medication")
        => /\ AfterEpic => Has(rResult, "epic")
           /\ Has(rResult, "meditech") <=> (BeforeEpic /\ rIn)
           /\ Has(rResult, "centricity") <=> (BeforeEpic /\ rOut)
           /\ (~AfterEpic /\ ~(BeforeEpic /\ rIn) /\ ~(BeforeEpic /\ rOut))
                  => rResult = <<"epic">>
           /\ (AfterEpic /\ ~BeforeEpic /\ ~rOut /\ ~rIn) => rResult = <<"epic">>

\* C3 witness: a range before the cutover with only inpatient selected
\* resolves to meditech alone.
C3_Witness ==
    /\ Returned("medication")
    /\ rStart = Day(18262) /\ rEnd = Day(18993)
    /\ rIn /\ ~rOut
    /\ rResult = <<"meditech">>

\* C4: location: epic if dateEnd >= 2023-06-03; gecb exactly when
\* dateStart < 2023-06-03 and outpatient; meditech exactly when
\* dateStart < 2023-06-03 and inpatient; when none holds the result is
\* exactly [epic]; a range entirely before the cutover with both contexts
\* is exactly gecb and meditech.
C4_Location ==
    Returned("location")
        => /\ AfterEpic => Has(rResult, "epic")
           /\ Has(rResult, "gecb") <=> (BeforeEpic /\ rOut)
           /\ Has(rResult, "meditech") <=> (BeforeEpic /\ rIn)
           /\ (~AfterEpic /\ ~(BeforeEpic /\ rOut) /\ ~(BeforeEpic /\ rIn))
                  => rResult = <<"epic">>
           /\ (BeforeEpic /\ ~AfterEpic /\ rOut /\ rIn)
                  => rResult = <<"gecb", "meditech">>

\* C4 witness: resolve('location', 2020-01-01, 2022-01-01, true, true).
C4_Witness ==
    /\ Returned("location")
    /\ rStart = Day(18262) /\ rEnd = Day(18993)
    /\ rOut /\ rIn
    /\ rResult = <<"gecb", "meditech">>

\* the pre-cutover system of lab and of procedure
Legacy(type) == IF type = "lab" THEN "meditech" ELSE "gecb"

\* C5: lab (legacy meditech) and procedure (legacy gecb): epic if
\* dateEnd >= 2023-06-03; the legacy system exactly when
\* dateStart < 2023-06-03; when neither holds exactly [epic]; the flags have
\* no effect.
C5_LabProcedure ==
    (rpc = "done" /\ rType \in {"lab", "procedure"})
        => /\ AfterEpic => Has(rResult, "epic")
           /\ Has(rResult, Legacy(rType)) <=> BeforeEpic
           /\ (~AfterEpic /\ ~BeforeEpic) => rResult = <<"epic">>
           /\ \A i \in DOMAIN rResult : rResult[i] \in {"epic", Legacy(rType)}
           /\ FlagsIgnored

\* C5 witness: a procedure range that straddles the cutover, with no
\* visit context selected, has both systems.
C5_Witness ==
    /\ Returned("procedure")
    /\ rStart = Day(18993) /\ rEnd = Day(19723)
    /\ ~rOut /\ ~rIn
    /\ rResult = <<"epic", "gecb">>

\* the cutover, the post-cutover and the pre-cutover system of a type
Cutover(type) == IF type = "dx" THEN ICD10_START ELSE EPIC_GOLIVE

PostSystem(type) == IF type = "dx" THEN "icd10" ELSE "epic"

PreSystem(type) ==
    CASE type = "dx" -> "icd9" [] type = "lab" -> "meditech" [] OTHER -> "gecb"

\* C6: for a single-day range d, dx, lab and procedure resolve to exactly
\* one system: the post-cutover one when d is on or after the type's
\* cutover (d equal to it included), the pre-cutover one when d is before.
C6_SingleDay ==
    (/\ rpc = "done"
     /\ rType \in {"dx", "lab", "procedure"}
     /\ rStart.valid
     /\ rStart = rEnd)
        => rResult = IF rStart.t >= Cutover(rType)
                     THEN <<PostSystem(rType)>>
                     ELSE <<PreSystem(rType)>>

\* C6 witness: a lab range of the go-live day alone resolves to epic alone.
C6_Witness ==
    /\ Returned("lab")
    /\ rStart = Day(EPIC_GOLIVE) /\ rEnd = Day(EPIC_GOLIVE)
    /\ rResult = <<"epic">>

\* C7: with dateStart and dateEnd malformed or missing (neither comparison
\* true) getActiveSystems still returns, and returns the type's default
\* alone: [icd10] for dx, [epic] for the other four types.
C7_MalformedDates ==
    (/\ rpc = "done"
     /\ rType \in DictionaryTypes
     /\ ~rStart.valid
     /\ ~rEnd.valid)
        => rResult = <<PostSystem(rType)>>

\* C7 witness: medication with both dates invalid and both contexts
\* selected.
C7_Witness ==
    /\ Returned("medication")
    /\ rStart = InvalidDate /\ rEnd = InvalidDate
    /\ rOut /\ rIn
    /\ rResult = <<"epic">>

(***************************************************************************)
(* KeywordMatcher.                                                         *)
(***************************************************************************)
Repeat(ch, n) == [i \in 1 .. n |-> ch]

\* the contiguous parts of a string
Parts(s) == {SubSeq(s, i, j) : i \in 1 .. (Len(s) + 1), j \in 0 .. Len(s)}

\* inner is outer without the run of ch at each end
Within(inner, outer, ch) ==
    /\ \E a \in 0 .. Len(outer) : \E b \in 0 .. Len(outer) :
           outer = Repeat(ch, a) \o inner \o Repeat(ch, b)
    /\ inner # <<>> => Head(inner) # ch /\ inner[Len(inner)] # ch

\* the cores of a raw term: lower-cased, trimmed, then without the
\* wildcards at either end
CoresOf(term) ==
    LET lower == toLowerCase(term)
    IN  {c \in Parts(lower) :
            \E t \in Parts(lower) : Within(t, lower, " ") /\ Within(c, t, "*")}

Contains(value, core) ==
    \E pre \in Parts(value) : \E post \in Parts(value) :
        value = pre \o core \o post

\* the core written with the wildcard at the start, the end, both, neither
StarForms(core) ==
    {core, <<"*">> \o core, core \o <<"*">>, <<"*">> \o core \o <<"*">>}

LoadStep == reloads' # reloads \/ queued' # queued \/ loads' # loads

\* the step is one of the keyword, checkbox and category handlers
EditStep == edits' # edits

KeysOf(rows) == [i \in DOMAIN rows |-> rows[i].rowKey]

\* the last fetch of load i resolves and loadTypeData assigns state.data
Completes(i) ==
    /\ i \in DOMAIN loads
    /\ Cardinality(loads[i].pending) = 1
    /\ loads' = Without(loads, i)
    /\ reloads' = reloads
    /\ queued' = queued

\* a later updateSystemsAndReload has replaced the systems the load read
Superseded(i) == loads[i].systems # activeSystems

\* C8: when reload A is superseded by reload B before A's data arrives, the
\* arrival of A's result, before or after that of B, never changes the
\* active unified collection.
C8_StaleEpochDiscard ==
    [][\A i \in DOMAIN loads :
           Completes(i) /\ Superseded(i) => data' = data]_vars

(***************************************************************************)
(* Properties of the rows and the three maps.                              *)
(***************************************************************************)
\* the values the maps hold for a key, false / empty / empty without entry
StoredDesired(key) == IF key \in DOMAIN desired THEN desired[key] ELSE FALSE

StoredCategory(key) == IF key \in DOMAIN categories THEN categories[key] ELSE <<>>

StoredKeyword(key) == IF key \in DOMAIN keywordMatched THEN keywordMatched[key] ELSE <<>>

FileCategory(key) == RawFile(key[1])[key[2] + 1].category

EntriesKept ==
    /\ DOMAIN desired \subseteq DOMAIN desired'
    /\ DOMAIN categories \subseteq DOMAIN categories'
    /\ DOMAIN keywordMatched \subseteq DOMAIN keywordMatched'

\* the keys of the rows the table shows after the step
ShownAfter == {data'[i].rowKey : i \in applied(filter', sType, data')}

\* what a reload writes to the maps is what the filter pass at its end
\* writes: desired and the keyword of a row that is shown, with chips present
ReloadWritesNothing ==
    LoadStep =>
        /\ categories' = categories
        /\ \A k \in DOMAIN desired' :
               (k \notin DOMAIN desired \/ desired'[k] # desired[k]) =>
                   keywords # <<>> /\ k \in ShownAfter /\ desired'[k]
        /\ \A k \in DOMAIN keywordMatched' :
               (k \notin DOMAIN keywordMatched \/ keywordMatched'[k] # keywordMatched[k]) =>
                   keywords # <<>> /\ k \in ShownAfter
                   /\ keywordMatched'[k] \in Range(keywords)

\* C10: an entry of the maps that once existed for a key still exists after
\* any sequence of reloads, filter passes, clears and edits, also when no row
\* of the collection has the key; a reload changes no value, except through
\* the auto-desire of the filter pass at its end.
C10_EntriesPersist == [][EntriesKept /\ ReloadWritesNothing]_vars

\* the second row of dictionary-dx.csv was checked, then a reload for icd10
\* alone left it out of the collection: its entry is still there
C10_Witness ==
    /\ sType = "dx"
    /\ reloads = 1
    /\ loads = <<>>
    /\ KeysOf(data) = <<<<"dictionary-dx.csv", 0>>>>
    /\ <<"dictionary-dx.csv", 1>> \in DOMAIN desired
    /\ desired[<<"dictionary-dx.csv", 1>>]

\* C11: no two rows of the collection of a type have the same key (file, row
\* index), also when several active systems map to the same file and when
\* rows of one file are attributed to different source systems.
C11_UniqueStableKeys ==
    \A i \in DOMAIN data : \A j \in DOMAIN data :
        data[i].rowKey = data[j].rowKey => i = j

\* icd9 and icd10 both map to dictionary-dx.csv, and epic and centricity to
\* dictionary-medication.csv whose rows go to either system: each file was
\* merged once
C11_Witness ==
    /\ Len(activeSystems) = 2
    /\ Len(getSystemCsvFiles(sType, activeSystems)) = 1
    /\ Len(data) = 2
    /\ data[1].rowKey[1] = data[2].rowKey[1]
    /\ sType = "medication" => data[1].source # data[2].source

(***************************************************************************)
(* Keyword filter passes.                                                  *)
(***************************************************************************)
\* the core is in the value at some position
Occurs(core, value) ==
    \E i \in 1 .. (Len(value) - Len(core) + 1) :
        \A k \in DOMAIN core : value[i + k - 1] = core[k]

\* the value the predicate of a keyword gives for a value
Hit(keyword, value) ==
    \E core \in CoresOf(keyword) : core # <<>> /\ Occurs(core, toLowerCase(value))

\* the cores of the keywords that have one
Cores(kws) ==
    {LET lower == toLowerCase(kws[n])
         inner == {i \in DOMAIN lower : lower[i] # "*"}
     IN  IF inner = {} THEN <<>>
         ELSE SubSeq(lower, CHOOSE i \in inner : \A j \in inner : i <= j,
                            CHOOSE i \in inner : \A j \in inner : i >= j)
       : n \in DOMAIN kws} \ {<<>>}

\* a core is in one of the values, whatever the letter case
AnyHit(cores, values) ==
    \E core \in cores : \E c \in values : Occurs(core, toLowerCase(c))

\* the columns of a row in its table, but for the keyword it is tagged with
OwnColumns(row) ==
    (IF sType # "dx" THEN {sourceLabel(row.source)} ELSE {})
        \cup {row.vocabulary_id, row.source_db, row.code, row.description, row.category}

\* a filter pass for the chips was the last to set the filter
FilterPassed == hasTable /\ keywords # <<>> /\ filter = keywords

\* keyword n matches a column of row i and no earlier keyword does
IsFirstMatch(i, n) ==
    /\ \E c \in OwnColumns(data[i]) : Hit(keywords[n], c)
    /\ \A m \in 1 .. (n - 1) : \A c \in OwnColumns(data[i]) : ~Hit(keywords[m], c)

\* C12: after a filter pass with a non-empty sequence of keywords, every row
\* the table shows has keywordMatched equal to the first keyword, in the
\* order added, whose predicate matches a column of that row.
C12_FirstMatchWins ==
    FilterPassed =>
        \A i \in visible :
            \E n \in DOMAIN keywords :
                IsFirstMatch(i, n) /\ data[i].keyword_matched = keywords[n]

\* the columns a row has from its file
FileColumns(row) == {row.vocabulary_id, row.source_db, row.code, row.description}

TableColumns(row) ==
    (IF sType # "dx" THEN {sourceLabel(row.source)} ELSE {})
        \cup {row.vocabulary_id, row.source_db, row.code, row.description,
              row.keyword_matched}

\* the rows downloadCsv exports with chips present
matchingData == SelectSeq(data, LAMBDA row : filterFn(filter, sType, row))

IsSubSequence(sub, seq) ==
    \E pos \in [DOMAIN sub -> DOMAIN seq] :
        /\ \A a \in DOMAIN sub : seq[pos[a]] = sub[a]
        /\ \A a \in DOMAIN sub : \A b \in DOMAIN sub : a < b => pos[a] < pos[b]

C14_EmptyTermsMatchAll == keywords = <<>> => visible = DOMAIN data

(***************************************************************************)
(* Manual edits against filter passes.                                     *)
(***************************************************************************)
\* a checkbox or deselect-all: the user's own change of desired
ManualEdit == EditStep /\ keywords' = keywords /\ categories' = categories

\* loadTypeData runs to its end in the step: it assigns state.data and, with
\* chips present, reapplies the filter
Uncached(systems) ==
    \E f \in Range(getSystemCsvFiles(sType, systems)) : f \notin DOMAIN rawData

Assigned(systems) ==
    \/ \E i \in DOMAIN loads : Completes(i) /\ systems = loads[i].systems
    \/ /\ loads' = loads
       /\ reloads' # reloads \/ queued' # queued
       /\ sType = "dx" \/ queued' < queued
       /\ ~Uncached(activeSystems')
       /\ systems = activeSystems'

Rebuilds == \E systems \in {activeSystems'} \cup {loads[i].systems : i \in DOMAIN loads} :
                Assigned(systems)

\* a filter pass with chips present: the chips changed, or a reload
\* reapplied them
PassesFilter ==
    /\ hasTable'
    /\ keywords' # <<>>
    /\ (EditStep /\ keywords' # keywords) \/ Rebuilds

KeptBetweenPasses ==
    (~PassesFilter /\ ~ManualEdit) =>
        /\ desired' = desired
        /\ \A i \in DOMAIN data' : data'[i].desired = StoredDesired(data'[i].rowKey)

\* at a filter pass every row shown is desired again and every other row
\* keeps the value it had
FiltersWin ==
    PassesFilter =>
        LET cores == Cores(keywords')
        IN  \A i \in DOMAIN data' :
                LET row == data'[i]
                    hit == AnyHit(cores, TableColumns(row))
                IN  /\ hit => row.desired /\ desired'[row.rowKey]
                    /\ ~hit => /\ row.desired = StoredDesired(row.rowKey)
                               /\ row.rowKey \in DOMAIN desired =>
                                      desired'[row.rowKey] = desired[row.rowKey]

TagOf(raw) ==
    IF sType = "dx"
    THEN IF raw.vocabulary_id = ICD10CM THEN {"icd10"}
         ELSE IF raw.vocabulary_id = ICD9CM THEN {"icd9"} ELSE {}
    ELSE IF sType \in {"medication", "lab", "procedure"} /\ raw.source_db # <<>>
    THEN {s \in SourceSystems : Chars(s) = toLowerCase(raw.source_db)}
    ELSE {}

\* the raw row a key names is kept for the systems
Kept(systems, key) ==
    LET raw == RawFile(key[1])[key[2] + 1]
    IN  (sType = "dx" \/ (sType \in {"medication", "lab", "procedure"} /\ raw.source_db # <<>>))
            => TagOf(raw) \cap Range(systems) # {}

\* the keys of the rows a load for the systems is to give: for each of its
\* files that loads, in the order of the files, the rows kept, in the order
\* of the file
RECURSIVE KeysOfFiles(_, _)
KeysOfFiles(systems, files) ==
    IF files = <<>> THEN <<>>
    ELSE LET f == Head(files)
             all == IF f \in unavailable THEN <<>>
                    ELSE [n \in 1 .. Len(RawFile(f)) |-> <<f, n - 1>>]
         IN  SelectSeq(all, LAMBDA key : Kept(systems, key))
                 \o KeysOfFiles(systems, Tail(files))

ExpectedKeys(systems) == KeysOfFiles(systems, getSystemCsvFiles(sType, systems))

\* every system a load can be for
SystemsOfLoads == {activeSystems'} \cup {loads[i].systems : i \in DOMAIN loads}

\* loadTypeData throws in the step: a file is not cached and loadCsv fails
FailsReload ==
    /\ loads' = loads
    /\ reloads' # reloads \/ queued' # queued
    /\ sType = "dx" \/ queued' < queued
    /\ Uncached(activeSystems')

C18_FailedFileIsEmpty ==
    [][\A systems \in SystemsOfLoads :
           Assigned(systems) => KeysOf(data') = ExpectedKeys(systems)]_vars

\* dictionary-location-epic.csv failed to load and dictionary-location-gecb.csv
\* loaded: the collection of epic and gecb is the row of gecb
C18_Witness ==
    /\ sType = "location"
    /\ unavailable = {"dictionary-location-epic.csv"}
    /\ activeSystems = <<"epic", "gecb">>
    /\ loads = <<>>
    /\ rawData = ("dictionary-location-epic.csv" :> "empty"
                  @@ "dictionary-location-gecb.csv" :> "rows")
    /\ KeysOf(data) = <<<<"dictionary-location-gecb.csv", 0>>>>

\* C19: merging the same files twice for the same systems with unchanged
\* maps gives collections of equal length whose rows are equal field by
\* field at every position, in the order of the files and of their rows.
C19_UnifyIdempotent ==
    [][\A systems \in SystemsOfLoads :
           (/\ Assigned(systems)
            /\ keywords = <<>>
            /\ KeysOf(data) = ExpectedKeys(systems)) =>
               /\ Len(data') = Len(data)
               /\ \A i \in DOMAIN data : data'[i] = data[i]]_vars

\* the collection of dictionary-dx.csv after the second merge for icd9 and
\* icd10, with the first row checked by hand
C19_Witness ==
    /\ sType = "dx"
    /\ reloads = 1
    /\ loads = <<>>
    /\ keywords = <<>>
    /\ activeSystems = <<"icd10", "icd9">>
    /\ Len(data) = 2
    /\ data[1].desired
    /\ ~data[2].desired

C21_FilterReadsCompleteRebuild ==
    [][\A systems \in SystemsOfLoads :
           (Assigned(systems) /\ keywords # <<>>) =>
               /\ KeysOf(data') = ExpectedKeys(systems)
               /\ systems = activeSystems']_vars


(***************************************************************************)
(* Properties of the search-terms manifest.                                *)
(***************************************************************************)
\* the columns of a row: those of its file, its source, desired, category
\* and the keyword it is tagged with
ColumnsOf(row) ==
    {row.vocabulary_id, row.source_db, row.code, row.description,
     row.source, TextOf(row.desired), row.category, row.keyword_matched}

\* the rows of matchingData a column of which the predicate of the keyword matches
MatchedRows(keyword) ==
    {i \in DOMAIN nArgs.matchingData :
        \E c \in ColumnsOf(nArgs.matchingData[i]) : Hit(keyword, c)}

\* C29: the match_count of a keyword of the manifest is the number of rows
\* of matchingData one of whose own columns the predicate of the keyword
\* matches, 0 for a keyword without core, and the same in
\* downloadSearchManifest and buildManifestContent.
C29_MatchCount ==
    npc = "done" =>
        \A n \in DOMAIN nArgs.keywords :
            /\ nOut[n] = Cardinality(MatchedRows(nArgs.keywords[n]))
            /\ nOut[n] = downloadSearchManifest_countMatches(nArgs.keywords[n],
                                                            nArgs.matchingData)
            /\ nOut[n] = buildManifestContent_countMatches(nArgs.keywords[n],
                                                          nArgs.matchingData)


(***************************************************************************)
(* The resolver's systems and their files.                                 *)
(***************************************************************************)
\* the files of the systems getActiveSystems returned
ReturnedFiles == getSystemCsvFiles(rType, rResult)

\* C24: for every dictionary type and every input, each system returned by
\* getActiveSystems has a file mapping for that type, so the files of the
\* returned systems are non-empty and duplicate-free: exactly one file for
\* dx, medication, lab and procedure, and for location exactly one file per
\* active system.
C24_EverySystemHasAFile ==
    (rpc = "done" /\ rType \in DictionaryTypes) =>
        /\ \A i \in DOMAIN rResult : rResult[i] \in DOMAIN fileMap(rType)
        /\ Len(ReturnedFiles) > 0
        /\ \A a \in DOMAIN ReturnedFiles : \A b \in DOMAIN ReturnedFiles :
               a # b => ReturnedFiles[a] # ReturnedFiles[b]
        /\ rType # "location" => Len(ReturnedFiles) = 1
        /\ rType = "location" =>
               /\ Len(ReturnedFiles) = Len(rResult)
               /\ \A i \in DOMAIN rResult :
                      ReturnedFiles[i] = fileMap(rType)[rResult[i]]

\* a legacy procedure range: gecb alone is returned and has its file
C24_Witness ==
    /\ rpc = "done"
    /\ rType = "procedure"
    /\ rResult = <<"gecb">>
    /\ ReturnedFiles = <<"dictionary-procedure.csv">>

\* C25: the visit-context flags influence the resolver only for pre-cutover
\* ranges: two calls that differ only in outpatient / inpatient return the
\* same list for dx, lab and procedure always, and for medication and
\* location whenever dateStart >= 2023-06-03, where the list is exactly
\* [epic].
C25_FlagsOnlyBeforeCutover ==
    rpc = "done" =>
        /\ rType \in {"dx", "lab", "procedure"} => FlagsIgnored
        /\ (rType \in {"medication", "location"} /\ Ge(rStart, Day(EPIC_GOLIVE))) =>
               /\ FlagsIgnored
               /\ rResult = <<"epic">>

\* a location call from the go-live day on, with both flags set, returned
\* epic alone
C25_Witness ==
    /\ rpc = "done"
    /\ rType = "location"
    /\ rStart = Day(EPIC_GOLIVE)
    /\ rEnd = Day(EPIC_GOLIVE)
    /\ rOut /\ rIn
    /\ rResult = <<"epic">>

(***************************************************************************)
(* Exported CSV files, read back as a CSV reader reads them: fields are    *)
(* separated by commas and records by line feeds outside double quotes,    *)
(* and a doubled quote inside a quoted field is one quote.                 *)
(***************************************************************************)
RECURSIVE ParseCsv(_, _, _, _, _, _)
ParseCsv(text, i, inQuotes, field, rec, recs) ==
    IF i > Len(text) THEN Append(recs, Append(rec, field))
    ELSE IF inQuotes
    THEN IF text[i] = "\""
         THEN IF i < Len(text) /\ text[i + 1] = "\""
              THEN ParseCsv(text, i + 2, TRUE, Append(field, "\""), rec, recs)
              ELSE ParseCsv(text, i + 1, FALSE, field, rec, recs)
         ELSE ParseCsv(text, i + 1, TRUE, Append(field, text[i]), rec, recs)
    ELSE CASE text[i] = "\"" -> ParseCsv(text, i + 1, TRUE, field, rec, recs)
           [] text[i] = ","  -> ParseCsv(text, i + 1, FALSE, <<>>, Append(rec, field), recs)
           [] text[i] = "\n" ->
                  ParseCsv(text, i + 1, FALSE, <<>>, <<>>, Append(recs, Append(rec, field)))
           [] OTHER -> ParseCsv(text, i + 1, FALSE, Append(field, text[i]), rec, recs)

\* the records of a CSV text: the header, then the data lines
Records(text) == IF text = <<>> THEN <<>> ELSE ParseCsv(text, 1, FALSE, <<>>, <<>>, <<>>)

\* the call produced a data CSV: a file handed to the browser, or non-empty
\* content returned for a push
Exported ==
    /\ xpc = "done"
    /\ xOut.downloaded \/ (xOut.returned = "content" /\ xOut.content # <<>>)

Header == Records(xOut.content)[1]

DataRecords == Tail(Records(xOut.content))

\* the header ends with desired, category, keyword_matched, names no column
\* that starts with '_' and names each reserved column once, and every data
\* line has as many fields as the header
WellFormedExport ==
    LET n == Len(Header)
    IN  /\ n >= 3
        /\ SubSeq(Header, n - 2, n) = <<DESIRED, CATEGORY, KEYWORD_MATCHED>>
        /\ \A i \in DOMAIN Header : ~startsWithUnderscore(Header[i])
        /\ \A r \in reserved : Cardinality({i \in DOMAIN Header : Header[i] = r}) = 1
        /\ \A j \in DOMAIN DataRecords : Len(DataRecords[j]) = n

\* C22: every exported data CSV (download and buildCsvContent) has a header
\* made of the data columns followed by exactly desired, category,
\* keyword_matched as its last three columns, contains no column whose name
\* starts with '_', lists each reserved column once, and every data line has
\* as many fields as the header.
C22_FixedTrailingColumns == Exported => WellFormedExport

\* the rows download is to export: those whose desired flag is true when
\* desiredOnly is set, all of them otherwise
Wanted ==
    LET flagged == {i \in DOMAIN xArgs.rows : Get(xArgs.rows[i], DESIRED) = Bool(TRUE)}
        RECURSIVE InOrder(_)
        InOrder(i) == IF i > Len(xArgs.rows) THEN <<>>
                      ELSE (IF i \in flagged THEN <<xArgs.rows[i]>> ELSE <<>>)
                           \o InOrder(i + 1)
    IN  IF xArgs.desiredOnly THEN InOrder(1) ELSE xArgs.rows

\* the position of a column in the header
ColumnOf(name) == CHOOSE i \in DOMAIN Header : Header[i] = name

\* C23: download with desiredOnly = true exports exactly the rows whose
\* desired flag is true, in their input order, and returns a rowCount equal
\* to the number of data lines written; when rows is empty, or desiredOnly
\* is true and no row is desired, it returns null and triggers no download.
C23_DesiredOnly ==
    (xpc = "done" /\ xArgs.fn = "download") =>
        IF Wanted = <<>>
        THEN xOut.returned = "null" /\ ~xOut.downloaded
        ELSE /\ xOut.returned = "result"
             /\ xOut.downloaded
             /\ xOut.rowCount = Len(DataRecords)
             /\ Len(DataRecords) = Len(Wanted)
             /\ \A j \in DOMAIN DataRecords :
                    /\ DataRecords[j][ColumnOf(<<"id">>)] = Get(Wanted[j], <<"id">>).s
                    /\ xArgs.desiredOnly =>
                           DataRecords[j][ColumnOf(DESIRED)] = <<"TRUE">>

\* of three rows the two desired ones were exported, in their order
C23_Witness ==
    /\ xpc = "done"
    /\ xArgs.fn = "download"
    /\ xArgs.desiredOnly
    /\ xArgs.rows = <<RowA, RowB, RowC>>
    /\ xOut.rowCount = 2
    /\ DataRecords[1][1] = <<"a">>
    /\ DataRecords[2][1] = <<"c">>

\* the rows a call exports
ExportedRows == IF xArgs.fn = "download" THEN Wanted ELSE xArgs.rows

\* the keys of a row that are data columns, in key order
DataKeys(row) ==
    LET RECURSIVE From(_)
        From(i) ==
            IF i > Len(row) THEN <<>>
            ELSE (IF Head(row[i].k) = "_"
                     \/ row[i].k \in {DESIRED, CATEGORY, KEYWORD_MATCHED}
                  THEN <<>>
                  ELSE <<row[i].k>>)
                 \o From(i + 1)
    IN  From(1)

\* C30: the export schema is taken from the first exported row only: the
\* header's data columns are exactly the non-reserved, non-underscore keys
\* of the first exported row in key order; a row that lacks one of these
\* columns gets an empty field, and a column present only in rows after the
\* first is written for no row.
C30_SchemaFromFirstRow ==
    (Exported /\ xArgs.fn # "bundle.download") =>
        LET cols == DataKeys(ExportedRows[1])
        IN  /\ Header = cols \o <<DESIRED, CATEGORY, KEYWORD_MATCHED>>
            /\ Len(DataRecords) = Len(ExportedRows)
            /\ \A j \in DOMAIN DataRecords : \A c \in DOMAIN cols :
                   DataRecords[j][c] =
                       IF cols[c] \in Range(ObjectKeys(ExportedRows[j]))
                       THEN ToText(Get(ExportedRows[j], cols[c]))
                       ELSE <<>>

\* the first row has id and name: the second row, which has no name, gets
\* an empty field, and the third row's column of its own is not written
C30_Witness ==
    /\ xpc = "done"
    /\ xArgs.fn = "buildCsvContent"
    /\ xArgs.rows = <<RowA, RowB, RowC>>
    /\ Header = <<<<"id">>, <<"name">>, DESIRED, CATEGORY, KEYWORD_MATCHED>>
    /\ DataRecords[1][2] = <<"a", ",", "b">>
    /\ DataRecords[2][2] = <<>>
    /\ DataRecords[3][2] = <<"\"">>
    /\ <<"extra">> \in Range(ObjectKeys(xArgs.rows[3]))

(***************************************************************************)
(* Properties of GitHubPush.                                               *)
(***************************************************************************)
Issued(method) ==
    {i \in DOMAIN pLog : pLog[i].ev = "request" /\ pLog[i].method = method}

HasSha(obj) == SHA \in Range(ObjectKeys(obj))

\* the last pushFile call passed the configuration check
PassedCheck == pCalls > 0 /\ pResult.kind # "GitHub not configured"

\* C26: a pushFile call that passes the configuration check issues one GET on
\* the contents URL and, only once that GET has settled, one PUT to the same
\* URL; the PUT body has a sha exactly when the GET response was ok and its
\* body had one, and then it is that sha; a GET that throws or is not ok is
\* followed by the PUT all the same, without sha.
C26_CheckThenPut ==
    /\ Cardinality(Issued("GET")) <= 1
    /\ Cardinality(Issued("PUT")) <= 1
    /\ PassedCheck =>
           /\ Issued("GET") = {1}
           /\ pLog[1].url = Url(pLog[1].url[2], pArgs.repoName, pArgs.filePath)
           /\ ppc = "get" <=> Len(pLog) = 1
           /\ ppc = "put" <=> Len(pLog) = 3
           /\ ppc = "idle" <=> Len(pLog) = 4
    /\ Len(pLog) >= 2 =>
           /\ pLog[2] = Settled("GET", pLog[2].resp)
           /\ Issued("PUT") = {3}
           /\ pLog[3].url = pLog[1].url
           /\ LET resp == pLog[2].resp
                  returned == resp.kind = "ok" /\ HasSha(resp.json)
              IN  /\ HasSha(pLog[3].body) <=> returned
                  /\ returned => Get(pLog[3].body, SHA) = Get(resp.json, SHA)

\* a second pushFile call whose existence check threw and whose PUT went out
\* without sha
C26_Witness ==
    /\ pCalls = 2
    /\ Len(pLog) >= 3
    /\ pLog[2].resp.kind = "throws"
    /\ ~HasSha(pLog[3].body)

\* a step of pushFile
PushStep == pCalls' # pCalls \/ ppc' # ppc \/ pLog' # pLog

PushErrors ==
    /\ pResult.kind = "GitHub not configured" => pLog = <<>>
    /\ (Len(pLog) = 4 /\ pLog[4].resp.kind = "notOk") =>
           /\ pResult.kind = "GitHub API error"
           /\ pResult.status = pLog[4].resp.status
    /\ pResult.kind = "success" =>
           /\ Len(pLog) = 4
           /\ pLog[4].resp.kind = "ok"

FailsBeforeAnyRequest ==
    (pCalls' # pCalls /\ (GH_TOKEN = "" \/ GH_ORG = "")) =>
        /\ pResult'.kind = "GitHub not configured"
        /\ pLog' = <<>>
        /\ ppc' = "idle"

\* C27: pushFile called with an empty token or org fails with 'GitHub not
\* configured' and issues no request; a PUT response that is not ok makes it
\* fail with an error that carries the response's status, and it returns a
\* value only for an ok response; no step of pushFile changes the stored
\* token or org.
C27_PushErrors ==
    /\ []PushErrors
    /\ [][FailsBeforeAnyRequest]_vars
    /\ [][PushStep => UNCHANGED <<GH_TOKEN, GH_ORG>>]_vars

\* a call that ended with the API error of a 422 response, the stored token
\* and org being what configure set
C27_Witness ==
    /\ pResult = Result("GitHub API error", 422, <<>>)
    /\ GH_TOKEN = "t2"
    /\ GH_ORG = "o1"

ConfigCheckPasses == ~notConfigured(GH_TOKEN, GH_ORG)

\* what a configure call does with a field of its argument
FieldApplied(stored, given, after) ==
    IF given = "" THEN after = stored ELSE after = given

ConfigureKeeps ==
    /\ GH_TOKEN # "" => GH_TOKEN' # ""
    /\ GH_ORG # "" => GH_ORG' # ""
    /\ isConfigured => isConfigured'
    /\ (gConfig' # gConfig \/ GH_TOKEN' # GH_TOKEN \/ GH_ORG' # GH_ORG) =>
           /\ FieldApplied(GH_TOKEN, gConfig'[1].ghToken, GH_TOKEN')
           /\ FieldApplied(GH_ORG, gConfig'[1].ghOrg, GH_ORG')

\* C28: isConfigured() is true exactly when pushFile's configuration check
\* passes; configure leaves a stored value as it is when the field is empty
\* or missing, so a token or org that is non-empty stays non-empty and
\* isConfigured() never goes from true to false.
C28_ConfiguredStays ==
    /\ [](isConfigured <=> ConfigCheckPasses)
    /\ [][ConfigureKeeps]_vars

\* the bundled copy, configured, after a configure call with both fields empty
C28_Witness ==
    /\ ghCopy = "bundle"
    /\ gConfig = <<[ghToken |-> "", ghOrg |-> ""]>>
    /\ GH_TOKEN = "t1"
    /\ GH_ORG = "o1"
    /\ isConfigured


=============================================================================
